---------------------------- MODULE Spec2Model ----------------------------
(***************************************************************************)
(* Kalima / Codex corpus core: CorpusManager of app.py.                    *)
(*                                                                         *)
(* Strings are sequences of one-character strings, so that strip(),        *)
(* lower(), upper(), join() and comparison by code point are computed and  *)
(* not assumed.  An absent mapping key (dict.get(...) giving None) is the  *)
(* value None.                                                             *)
(***************************************************************************)
EXTENDS Integers, Sequences, FiniteSets, TLC

VARIABLES
    verses,                \* self.verses: the ordered list of verse records
    verse_lookup,          \* self.verse_lookup: (surah, ayah) -> verse
    root_index,            \* self.root_index: root -> set of (surah, ayah)
    root_list,             \* self.root_list
    morph_pattern_index,   \* self.morph_pattern_index, in insertion order
    morph_patterns,        \* self.morph_patterns
    syntax_pattern_index,  \* self.syntax_pattern_index, in insertion order
    syntax_patterns,       \* self.syntax_patterns
    pc,                    \* position of a running build_linguistic_indexes
    snapshot,              \* its locals root_map, morph_meta, syntax_meta
    result,                \* what the last operation returned
    store,                 \* CODEX_READ_ONLY, self.tags and the two data files
    reader                 \* a QuranReader: its verses and current_index

vars == <<verses, verse_lookup, root_index, root_list, morph_pattern_index,
          morph_patterns, syntax_pattern_index, syntax_patterns, pc,
          snapshot, result, store, reader>>

indexes == <<root_index, root_list, morph_pattern_index, morph_patterns,
             syntax_pattern_index, syntax_patterns>>

-----------------------------------------------------------------------------
(* Bounds of the model.                                                    *)

MaxVerses == 2
MaxLimit == 2
MaxTextLen == 4

-----------------------------------------------------------------------------
(* Python values.                                                          *)

None == <<"NONE">>

Truthy(x) == x # None /\ x # <<>>

\* x or d
OrElse(x, d) == IF Truthy(x) THEN x ELSE d

UpperLetters ==
    <<"A", "B", "C", "D", "E", "F", "G", "H", "I", "J", "K", "L", "M", "N",
      "O", "P", "Q", "R", "S", "T", "U", "V", "W", "X", "Y", "Z">>

LowerLetters ==
    <<"a", "b", "c", "d", "e", "f", "g", "h", "i", "j", "k", "l", "m", "n",
      "o", "p", "q", "r", "s", "t", "u", "v", "w", "x", "y", "z">>

IsUpperLetter(c) == \E i \in 1..26 : UpperLetters[i] = c
IsLowerLetter(c) == \E i \in 1..26 : LowerLetters[i] = c

LetterIndex(letters, c) == CHOOSE i \in 1..26 : letters[i] = c

\* ord(c) of the characters the model uses; str comparison is by code point.
CodePoint(c) ==
    IF IsUpperLetter(c) THEN 64 + LetterIndex(UpperLetters, c)
    ELSE IF IsLowerLetter(c) THEN 96 + LetterIndex(LowerLetters, c)
    ELSE CASE c = " " -> 32  [] c = "(" -> 40  [] c = ")" -> 41
           [] c = "+" -> 43  [] c = "," -> 44  [] c = "-" -> 45
           [] c = "1" -> 49  [] c = "2" -> 50  [] c = "3" -> 51
           [] c = ":" -> 58  [] c = ">" -> 62  [] c = "|" -> 124
           [] c = "BA" -> 1576         \* U+0628
           [] c = "TATWEEL" -> 1600    \* U+0640
           [] c = "LAM" -> 1604        \* U+0644
           [] c = "FATHA" -> 1614      \* U+064E
           [] c = "SUKUN" -> 1618      \* U+0652
           [] c = "BULLET" -> 8226     \* U+2022
           [] c = "ARROW" -> 8594      \* U+2192

\* c.lower() and c.upper() for one character
LowerChar(c) ==
    IF IsUpperLetter(c) THEN LowerLetters[LetterIndex(UpperLetters, c)] ELSE c

UpperChar(c) ==
    IF IsLowerLetter(c) THEN UpperLetters[LetterIndex(LowerLetters, c)] ELSE c

Lower(s) == [i \in 1..Len(s) |-> LowerChar(s[i])]
Upper(s) == [i \in 1..Len(s) |-> UpperChar(s[i])]

IsSpace(c) == c = " "

\* str.strip()
RECURSIVE LStrip(_)
LStrip(s) == IF s # <<>> /\ IsSpace(Head(s)) THEN LStrip(Tail(s)) ELSE s

RECURSIVE RStrip(_)
RStrip(s) ==
    IF s # <<>> /\ IsSpace(s[Len(s)]) THEN RStrip(SubSeq(s, 1, Len(s) - 1))
    ELSE s

Strip(s) == RStrip(LStrip(s))

\* sep.join(parts)
RECURSIVE Join(_, _)
Join(sep, parts) ==
    IF parts = <<>> THEN <<>>
    ELSE IF Len(parts) = 1 THEN parts[1]
    ELSE parts[1] \o sep \o Join(sep, Tail(parts))

\* sub in s
Contains(s, sub) ==
    \E i \in 0..(Len(s) - Len(sub)) :
        \A j \in 1..Len(sub) : s[i + j] = sub[j]

\* s.endswith(suffix)
EndsWith(s, suffix) ==
    /\ Len(suffix) <= Len(s)
    /\ \A j \in 1..Len(suffix) : s[Len(s) - Len(suffix) + j] = suffix[j]

\* re.split(r'[\s,>+-]+', pattern), empty pieces dropped
IsSyntaxSeparator(c) == IsSpace(c) \/ c \in {",", ">", "+", "-"}

RECURSIVE SplitPattern(_, _)
SplitPattern(pattern, piece) ==
    IF pattern = <<>> THEN (IF piece = <<>> THEN <<>> ELSE <<piece>>)
    ELSE IF IsSyntaxSeparator(Head(pattern))
         THEN (IF piece = <<>> THEN <<>> ELSE <<piece>>)
              \o SplitPattern(Tail(pattern), <<>>)
         ELSE SplitPattern(Tail(pattern), Append(piece, Head(pattern)))

\* a < b for str: the first differing code point decides, a proper prefix is less
RECURSIVE StrLess(_, _)
StrLess(a, b) ==
    IF b = <<>> THEN FALSE
    ELSE IF a = <<>> THEN TRUE
    ELSE IF Head(a) = Head(b) THEN StrLess(Tail(a), Tail(b))
    ELSE CodePoint(Head(a)) < CodePoint(Head(b))

\* a < b for (surah, ayah) tuples
TupleLess(a, b) == a[1] < b[1] \/ (a[1] = b[1] /\ a[2] < b[2])

\* seq[:limit]; a negative limit drops the last -limit items
Slice(seq, limit) ==
    IF limit >= 0
    THEN SubSeq(seq, 1, IF limit < Len(seq) THEN limit ELSE Len(seq))
    ELSE SubSeq(seq, 1, Len(seq) + limit)

\* sorted(set of tuples)
RECURSIVE SortedTuples(_)
SortedTuples(S) ==
    IF S = {} THEN <<>>
    ELSE LET m == CHOOSE x \in S : \A y \in S \ {x} : TupleLess(x, y)
         IN <<m>> \o SortedTuples(S \ {m})

\* sorted(set of str)
RECURSIVE SortedStrings(_)
SortedStrings(S) ==
    IF S = {} THEN <<>>
    ELSE LET m == CHOOSE x \in S : \A y \in S \ {x} : StrLess(x, y)
         IN <<m>> \o SortedStrings(S \ {m})

-----------------------------------------------------------------------------
(* The corpus data model: verse -> tokens -> segments (JSON mappings).     *)

Segment(type, pos, root, lemma, features) ==
    [type |-> type, pos |-> pos, root |-> root, lemma |-> lemma,
     features |-> features]

Token(form, pos, segments) == [form |-> form, pos |-> pos, segments |-> segments]

Verse(surah, ayah, text, tokens) ==
    [surah |-> surah, ayah |-> ayah, text |-> text, tokens |-> tokens]

VerseKey(verse) == <<verse.surah, verse.ayah>>

\* build_surah_index: verse_lookup[(surah, ayah)] = verse, later verses overwrite
RECURSIVE BuildVerseLookup(_, _)
BuildVerseLookup(lookup, vs) ==
    IF vs = <<>> THEN lookup
    ELSE LET verse == Head(vs)
             key == VerseKey(verse)
         IN BuildVerseLookup(
                [k \in DOMAIN lookup \cup {key} |->
                    IF k = key THEN verse ELSE lookup[k]],
                Tail(vs))

-----------------------------------------------------------------------------
(* build_linguistic_indexes.                                               *)

EmptyMap == [k \in {} |-> {}]

\* _make_morph_pattern_key without the test of line 235
MakeMorphPatternKeyAlways(segment) ==
    Join(<<"|">>, <<Lower(OrElse(segment.type, <<>>)),
                    Lower(OrElse(segment.pos, <<>>)),
                    Lower(OrElse(segment.lemma, <<>>)),
                    Lower(OrElse(segment.features, <<>>))>>)

\* _make_morph_pattern_key
MakeMorphPatternKey(segment) ==
    LET type_ == Lower(OrElse(segment.type, <<>>))
        pos == Lower(OrElse(segment.pos, <<>>))
        lemma == Lower(OrElse(segment.lemma, <<>>))
        features == Lower(OrElse(segment.features, <<>>))
    IN IF type_ = <<>> /\ pos = <<>> /\ lemma = <<>> /\ features = <<>>
       THEN None
       ELSE Join(<<"|">>, <<type_, pos, lemma, features>>)

\* _format_morph_pattern_label
FormatMorphPatternLabel(segment) ==
    LET parts ==
            (IF Truthy(segment.type) THEN <<Upper(segment.type)>> ELSE <<>>)
            \o (IF Truthy(segment.pos) THEN <<segment.pos>> ELSE <<>>)
            \o (IF Truthy(segment.lemma) THEN <<segment.lemma>> ELSE <<>>)
            \o (IF Truthy(segment.features) THEN <<segment.features>> ELSE <<>>)
    IN OrElse(Join(<<" ", "BULLET", " ">>, parts),
              <<"M", "o", "r", "p", "h", " ", "P", "a", "t", "t", "e", "r", "n">>)

\* _extract_pos_sequence
RECURSIVE ExtractPosSequence(_)
ExtractPosSequence(tokens) ==
    IF tokens = <<>> THEN <<>>
    ELSE LET token == Head(tokens)
             pos == IF token.segments # <<>>
                    THEN OrElse(token.segments[1].pos, <<>>)
                    ELSE IF Truthy(token.pos) THEN token.pos ELSE <<>>
         IN (IF pos # <<>> THEN <<Lower(pos)>> ELSE <<>>)
            \o ExtractPosSequence(Tail(tokens))

\* root_map[root] = {verse_key}: the set is replaced, not extended
RootMapAddOverwriting(root_map, root, verse_key) ==
    [k \in DOMAIN root_map \cup {root} |->
        IF k = root THEN {verse_key} ELSE root_map[k]]

\* root_map[root].add(verse_key) on a defaultdict(set)
RootMapAdd(root_map, root, verse_key) ==
    [k \in DOMAIN root_map \cup {root} |->
        IF k = root
        THEN (IF root \in DOMAIN root_map THEN root_map[root] ELSE {})
             \cup {verse_key}
        ELSE root_map[k]]

\* meta = d.setdefault(key, {'label': label, 'verses': set()});
\* meta['verses'].add(verse_key).  The dict keeps insertion order.
MetaAdd(meta, key, label, verse_key) ==
    IF \E i \in 1..Len(meta) : meta[i].id = key
    THEN [i \in 1..Len(meta) |->
            IF meta[i].id = key
            THEN [meta[i] EXCEPT !.verses = @ \cup {verse_key}]
            ELSE meta[i]]
    ELSE Append(meta, [id |-> key, label |-> label, verses |-> {verse_key}])

\* the body of "for segment in segments" without the test "if root:" of
\* line 163
IndexSegmentUnguarded(acc, segment, verse_key) ==
    LET root == Strip(OrElse(segment.root, <<>>))
        pattern_key == MakeMorphPatternKey(segment)
        acc1 == [acc EXCEPT !.root_map = RootMapAdd(@, root, verse_key)]
    IN IF Truthy(pattern_key)
       THEN [acc1 EXCEPT !.morph_meta =
                MetaAdd(@, pattern_key, FormatMorphPatternLabel(segment),
                        verse_key)]
       ELSE acc1

\* the body of "for segment in segments" (lines 161-172)
IndexSegment(acc, segment, verse_key) ==
    LET root == Strip(OrElse(segment.root, <<>>))
        pattern_key == MakeMorphPatternKey(segment)
        acc1 == IF root # <<>>
                THEN [acc EXCEPT !.root_map = RootMapAdd(@, root, verse_key)]
                ELSE acc
    IN IF Truthy(pattern_key)
       THEN [acc1 EXCEPT !.morph_meta =
                MetaAdd(@, pattern_key, FormatMorphPatternLabel(segment),
                        verse_key)]
       ELSE acc1

RECURSIVE IndexSegments(_, _, _)
IndexSegments(acc, segments, verse_key) ==
    IF segments = <<>> THEN acc
    ELSE IndexSegments(IndexSegment(acc, Head(segments), verse_key),
                       Tail(segments), verse_key)

RECURSIVE IndexTokens(_, _, _)
IndexTokens(acc, tokens, verse_key) ==
    IF tokens = <<>> THEN acc
    ELSE IndexTokens(IndexSegments(acc, Head(tokens).segments, verse_key),
                     Tail(tokens), verse_key)

\* the windows visited by the two loops of lines 177-179, in visiting order
RECURSIVE WindowsOfLength(_, _, _)
WindowsOfLength(pos_sequence, length, start) ==
    IF start > Len(pos_sequence) - length + 1 THEN <<>>
    ELSE <<SubSeq(pos_sequence, start, start + length - 1)>>
         \o WindowsOfLength(pos_sequence, length, start + 1)

\* the two loops with the lengths one too short: windows of length 1 and 2
RECURSIVE WindowsOneShorter(_, _, _)
WindowsOneShorter(pos_sequence, length, max_len) ==
    IF length > max_len THEN <<>>
    ELSE WindowsOfLength(pos_sequence, length - 1, 1)
         \o WindowsOneShorter(pos_sequence, length + 1, max_len)

RECURSIVE Windows(_, _, _)
Windows(pos_sequence, length, max_len) ==
    IF length > max_len THEN <<>>
    ELSE WindowsOfLength(pos_sequence, length, 1)
         \o Windows(pos_sequence, length + 1, max_len)

\* the body of the innermost loop (lines 179-185), over the windows in order
RECURSIVE IndexWindows(_, _, _)
IndexWindows(acc, windows, verse_key) ==
    IF windows = <<>> THEN acc
    ELSE LET seq == Head(windows)
             key == Join(<<"|">>, seq)
             label == Join(<<" ", "ARROW", " ">>,
                           [i \in 1..Len(seq) |-> Upper(seq[i])])
         IN IndexWindows(
                [acc EXCEPT !.syntax_meta = MetaAdd(@, key, label, verse_key)],
                Tail(windows), verse_key)

\* verse_key = (ayah_num, surah_num): the pair built the wrong way round
IndexVerseSwapped(acc, verse) ==
    LET verse_key == <<verse.ayah, verse.surah>>
        acc1 == IndexTokens(acc, verse.tokens, verse_key)
        pos_sequence == ExtractPosSequence(verse.tokens)
        max_len == IF Len(pos_sequence) < 3 THEN Len(pos_sequence) ELSE 3
    IN IF pos_sequence # <<>>
       THEN IndexWindows(acc1, Windows(pos_sequence, 2, max_len), verse_key)
       ELSE acc1

\* the body of "for verse in self.verses" (lines 153-185)
IndexVerse(acc, verse) ==
    LET verse_key == VerseKey(verse)
        acc1 == IndexTokens(acc, verse.tokens, verse_key)
        pos_sequence == ExtractPosSequence(verse.tokens)
        max_len == IF Len(pos_sequence) < 3 THEN Len(pos_sequence) ELSE 3
    IN IF pos_sequence # <<>>
       THEN IndexWindows(acc1, Windows(pos_sequence, 2, max_len), verse_key)
       ELSE acc1

RECURSIVE IndexVerses(_, _)
IndexVerses(acc, vs) ==
    IF vs = <<>> THEN acc
    ELSE IndexVerses(IndexVerse(acc, Head(vs)), Tail(vs))

\* the fresh locals of lines 149-151
FreshLocals == [root_map |-> EmptyMap, morph_meta |-> <<>>, syntax_meta |-> <<>>]

\* lines 149-185: the locals after the pass over the corpus
BuildLocals(vs) == IndexVerses(FreshLocals, vs)

\* an unstable sort: an item goes before the items of equal label
RECURSIVE InsertByLabelUnstable(_, _)
InsertByLabelUnstable(sorted, item) ==
    IF sorted = <<>> THEN <<item>>
    ELSE LET last == sorted[Len(sorted)]
         IN IF ~StrLess(last.label, item.label)
            THEN Append(InsertByLabelUnstable(
                            SubSeq(sorted, 1, Len(sorted) - 1), item), last)
            ELSE Append(sorted, item)

\* sorted(items, key=lambda item: item['label']): a stable insertion sort
RECURSIVE InsertByLabel(_, _)
InsertByLabel(sorted, item) ==
    IF sorted = <<>> THEN <<item>>
    ELSE LET last == sorted[Len(sorted)]
         IN IF StrLess(item.label, last.label)
            THEN Append(InsertByLabel(SubSeq(sorted, 1, Len(sorted) - 1), item),
                        last)
            ELSE Append(sorted, item)

RECURSIVE SortedByLabel(_, _)
SortedByLabel(sorted, items) ==
    IF items = <<>> THEN sorted
    ELSE SortedByLabel(InsertByLabel(sorted, Head(items)), Tail(items))

\* lines 191-201 and 204-214: the {id, label, count} listing of an index
PatternList(meta) ==
    SortedByLabel(<<>>,
        [i \in 1..Len(meta) |->
            [id |-> meta[i].id, label |-> meta[i].label,
             count |-> Cardinality(meta[i].verses)]])

\* line 188
RootList(root_map) == SortedStrings(DOMAIN root_map)

-----------------------------------------------------------------------------
(* Query operations over the indexes.                                      *)

\* a Python list and a Python dict {'results': ..., 'total_count': ...}
PyList(items) == [kind |-> "list", items |-> items]
PyDict(results, total_count) ==
    [kind |-> "dict", results |-> results, total_count |-> total_count]

\* lines 563-570: the form of the first token that has a segment with
\* seg.get('root') == root and a non-empty form
RECURSIVE MatchForm(_, _)
MatchForm(tokens, root) ==
    IF tokens = <<>> THEN None
    ELSE LET token == Head(tokens)
             hit == \E i \in 1..Len(token.segments) :
                        token.segments[i].root = root
         IN IF hit /\ Truthy(token.form) THEN token.form
            ELSE MatchForm(Tail(tokens), root)

\* lines 557-575: the loop over references[:limit]; a location that
\* verse_lookup.get does not resolve is skipped
RECURSIVE RootEntries(_, _, _)
RootEntries(refs, lookup, root) ==
    IF refs = <<>> THEN <<>>
    ELSE (IF Head(refs) \notin DOMAIN lookup THEN <<>>
          ELSE LET verse == lookup[Head(refs)]
               IN <<[verse |-> verse,
                     match |-> <<"R", "o", "o", "t", ":", " ">> \o root,
                     match_term |-> MatchForm(verse.tokens, root)]>>)
         \o RootEntries(Tail(refs), lookup, root)

\* sorted(..., key=lambda ref: (ref[1], ref[0])): ayah before surah
ReferencesByAyah(locations) ==
    LET swapped == SortedTuples({<<loc[2], loc[1]>> : loc \in locations})
    IN [i \in 1..Len(swapped) |-> <<swapped[i][2], swapped[i][1]>>]

\* line 555
References(locations) == SortedTuples(locations)

\* search_root
SearchRootOn(index, lookup, root_arg, limit) ==
    LET root == Strip(OrElse(root_arg, <<>>))
    IN IF root = <<>> \/ root \notin DOMAIN index THEN PyList(<<>>)
       ELSE LET references == References(index[root])
            IN PyDict(RootEntries(Slice(references, limit), lookup, root),
                      Len(references))

\* d[key] on a defaultdict(set): the dict after the read, which holds key
\* with an empty set if it did not hold it before
DefaultDictGetItem(map, key) ==
    IF key \in DOMAIN map THEN map
    ELSE [k \in DOMAIN map \cup {key} |-> IF k = key THEN {} ELSE map[k]]

\* self.root_index after search_root without the membership test of line 553
RootIndexAfterSearchRootUnguarded(index, root_arg) ==
    LET root == Strip(OrElse(root_arg, <<>>))
    IN IF root = <<>> THEN index ELSE DefaultDictGetItem(index, root)

\* self.root_index after search_root: line 555 reads self.root_index[root]
\* only past the return of line 554
RootIndexAfterSearchRoot(index, root_arg) ==
    LET root == Strip(OrElse(root_arg, <<>>))
    IN IF root = <<>> \/ root \notin DOMAIN index THEN index
       ELSE DefaultDictGetItem(index, root)

-----------------------------------------------------------------------------
(* Inputs of the index specification.                                      *)

S_r == <<"r">>
S_k == <<"k">>
S_n == <<"n">>
S_N == <<"N">>
S_V == <<"V">>
S_P == <<"P">>
S_stem == <<"s", "t", "e", "m">>
S_STEM == <<"S", "T", "E", "M">>

SegA == Segment(S_STEM, S_N, S_r, None, None)
SegB == Segment(S_stem, S_n, <<" ", "r">>, None, None)
SegC == Segment(None, S_n, None, None, None)
SegD == Segment(None, None, <<>>, S_n, None)
SegE == Segment(None, S_V, S_k, None, None)
SegF == Segment(None, None, None, None, None)
SegG == Segment(None, <<>>, <<" ">>, None, None)
SegH == Segment(None, S_N, <<"r", " ">>, None, None)

\* the token lists a verse of the index specification may carry
TokenLists ==
    { <<>>,
      <<Token(S_r, None, <<SegA>>)>>,
      <<Token(None, None, <<SegB>>), Token(S_k, None, <<SegE>>)>>,
      <<Token(S_n, None, <<SegC, SegD>>)>>,
      <<Token(S_n, None, <<SegD, SegC>>)>>,
      <<Token(None, None, <<SegG, SegF>>), Token(S_P, S_P, <<>>),
        Token(<<>>, None, <<SegH>>), Token(S_k, None, <<SegE>>),
        Token(S_r, None, <<SegA, SegE>>)>> }

Locations == {<<1, 1>>, <<1, 2>>, <<2, 1>>}

\* what a verse carries besides its identity
Content(text, tokens) == [text |-> text, tokens |-> tokens]

\* corpora: lists of verses with pairwise distinct (surah, ayah)
RECURSIVE CorporaOfLength(_, _, _)
CorporaOfLength(n, locations, contents) ==
    IF n = 0 THEN {<<>>}
    ELSE {Append(c, Verse(loc[1], loc[2], k.text, k.tokens)) :
            c \in CorporaOfLength(n - 1, locations, contents),
            loc \in locations, k \in contents}

DistinctKeys(c) ==
    \A i, j \in 1..Len(c) : i # j => VerseKey(c[i]) # VerseKey(c[j])

Corpora(locations, contents) ==
    UNION {{c \in CorporaOfLength(n, locations, contents) : DistinctKeys(c)} :
             n \in 0..MaxVerses}

IndexContents == {Content(<<>>, tokens) : tokens \in TokenLists}

RootQueries == {S_r, <<" ", "r">>, S_n, <<>>}

Limits == 0..MaxLimit

-----------------------------------------------------------------------------
(* The index specification: a CorpusManager after construction, its index  *)
(* accessors, search_root and the rebuild trigger.                         *)

Returned(op, args, value) == [op |-> op, args |-> args, value |-> value]

\* the index fields of a CorpusManager
IndexFields(ri, rl, mi, mp, si, sp) ==
    [root_index |-> ri, root_list |-> rl, morph_pattern_index |-> mi,
     morph_patterns |-> mp, syntax_pattern_index |-> si, syntax_patterns |-> sp]

\* lines 42-47
EmptyIndexFields == IndexFields(EmptyMap, <<>>, <<>>, <<>>, <<>>, <<>>)

CurrentIndexFields ==
    IndexFields(root_index, root_list, morph_pattern_index, morph_patterns,
                syntax_pattern_index, syntax_patterns)

\* self.root_list += ..., self.morph_patterns += ..., self.syntax_patterns
\* += ...: the lists are extended, not replaced
BuiltIndexFieldsExtending(self, vs) ==
    LET locals == BuildLocals(vs)
    IN IndexFields(locals.root_map,
                   self.root_list \o RootList(locals.root_map),
                   locals.morph_meta,
                   self.morph_patterns \o PatternList(locals.morph_meta),
                   locals.syntax_meta,
                   self.syntax_patterns \o PatternList(locals.syntax_meta))

\* build_linguistic_indexes: the six fields it assigns (lines 187-214);
\* self stands for the fields before the call
BuiltIndexFields(self, vs) ==
    LET locals == BuildLocals(vs)
    IN IndexFields(locals.root_map, RootList(locals.root_map),
                   locals.morph_meta, PatternList(locals.morph_meta),
                   locals.syntax_meta, PatternList(locals.syntax_meta))

\* READ_ONLY_MODE, line 31: os.getenv('CODEX_READ_ONLY', '').lower() in
\* ('1', 'true', 'yes'); environ is None when the variable is not set
ReadOnlyMode(environ) ==
    Lower(IF environ = None THEN <<>> ELSE environ)
        \in {<<"1">>, <<"t", "r", "u", "e">>, <<"y", "e", "s">>}

READ_ONLY_MODE == ReadOnlyMode(store.environ)

\* the process at start-up: load_corpus has read corpus_file, load_tags has
\* read tags_file ({} when the file is missing), nothing was written yet
StartedStore(environ, corpus, tags_file) ==
    [environ |-> environ,
     tags |-> IF tags_file = None THEN <<>> ELSE tags_file,
     corpus_file |-> corpus,
     tags_file |-> tags_file,
     written |-> {},
     requests |-> 0]

\* QuranReader.__init__ on the same corpus file
OpenedReader(corpus) == [verses |-> corpus, current_index |-> 0]

\* CorpusManager.__init__ on a loaded corpus
ConstructedUnder(corpus, environ, tags_file) ==
    LET built == BuiltIndexFields(EmptyIndexFields, corpus)
    IN /\ store = StartedStore(environ, corpus, tags_file)
       /\ reader = OpenedReader(corpus)
       /\ verses = corpus
       /\ verse_lookup = BuildVerseLookup(EmptyMap, corpus)
       /\ root_index = built.root_index
       /\ root_list = built.root_list
       /\ morph_pattern_index = built.morph_pattern_index
       /\ morph_patterns = built.morph_patterns
       /\ syntax_pattern_index = built.syntax_pattern_index
       /\ syntax_patterns = built.syntax_patterns
       /\ pc = "idle"
       /\ snapshot = FreshLocals
       /\ result = Returned("__init__", <<>>, None)

Constructed(corpus) == ConstructedUnder(corpus, None, None)

Init == \E corpus \in Corpora(Locations, IndexContents) : Constructed(corpus)

\* build_linguistic_indexes, run to completion
BuildLinguisticIndexes ==
    LET built == BuiltIndexFields(CurrentIndexFields, verses)
    IN /\ pc = "idle"
       /\ root_index' = built.root_index
       /\ root_list' = built.root_list
       /\ morph_pattern_index' = built.morph_pattern_index
       /\ morph_patterns' = built.morph_patterns
       /\ syntax_pattern_index' = built.syntax_pattern_index
       /\ syntax_patterns' = built.syntax_patterns
       /\ result' = Returned("build_linguistic_indexes", <<>>, None)
       /\ UNCHANGED <<verses, verse_lookup, pc, snapshot, store, reader>>

SearchRoot ==
    \E root \in RootQueries, limit \in Limits :
        /\ result' = Returned("search_root", <<root, limit>>,
                              SearchRootOn(root_index, verse_lookup, root, limit))
        /\ root_index' = RootIndexAfterSearchRoot(root_index, root)
        /\ UNCHANGED <<verses, verse_lookup, root_list, morph_pattern_index,
                       morph_patterns, syntax_pattern_index, syntax_patterns,
                       pc, snapshot, store, reader>>

GetRootList ==
    /\ result' = Returned("get_root_list", <<>>, root_list)
    /\ UNCHANGED <<verses, verse_lookup, indexes, pc, snapshot, store, reader>>

GetMorphPatterns ==
    /\ result' = Returned("get_morph_patterns", <<>>, morph_patterns)
    /\ UNCHANGED <<verses, verse_lookup, indexes, pc, snapshot, store, reader>>

GetSyntaxPatterns ==
    /\ result' = Returned("get_syntax_patterns", <<>>, syntax_patterns)
    /\ UNCHANGED <<verses, verse_lookup, indexes, pc, snapshot, store, reader>>

Next ==
    \/ BuildLinguisticIndexes
    \/ SearchRoot
    \/ GetRootList
    \/ GetMorphPatterns
    \/ GetSyntaxPatterns

Spec == Init /\ [][Next]_vars

-----------------------------------------------------------------------------
(* Properties of the index specification.                                  *)

SegmentsOf(verse) ==
    UNION {{verse.tokens[t].segments[i] :
              i \in 1..Len(verse.tokens[t].segments)} :
             t \in 1..Len(verse.tokens)}

CorpusVerses == {verses[i] : i \in 1..Len(verses)}

CorpusKeys == {<<v.surah, v.ayah>> : v \in CorpusVerses}

EntryOf(index, key) == IF key \in DOMAIN index THEN index[key] ELSE {}

TrimmedRoot(seg) == Strip(IF seg.root = None THEN <<>> ELSE seg.root)

ReturnedKeys(value) ==
    IF value.kind = "dict"
    THEN {<<value.results[i].verse.surah, value.results[i].verse.ayah>> :
             i \in 1..Len(value.results)}
    ELSE {}

\* C1 as stated: a location is in the root index entry of R iff its verse
\* has a segment whose root is exactly R (compared without trimming).
C1_ExactRootEntries ==
    \A v \in CorpusVerses :
        \A R \in DOMAIN root_index \cup {seg.root : seg \in SegmentsOf(v)} :
            Truthy(R) =>
                (<<v.surah, v.ayah>> \in EntryOf(root_index, R)
                    <=> \E seg \in SegmentsOf(v) : seg.root = R)

\* C1 amended: a location is in the root index entry of a non-empty R iff
\* its verse has a segment whose root, trimmed of surrounding whitespace,
\* is R; and search_root(R, limit) with limit >= the size of the entry
\* returns exactly the verses at these locations.
C1_TrimmedRootEntries ==
    /\ \A v \in CorpusVerses :
        \A R \in DOMAIN root_index \cup {TrimmedRoot(seg) : seg \in SegmentsOf(v)} :
            R # <<>> =>
                (<<v.surah, v.ayah>> \in EntryOf(root_index, R)
                    <=> \E seg \in SegmentsOf(v) : TrimmedRoot(seg) = R)
    /\ result.op = "search_root" =>
        LET R == Strip(result.args[1])
            limit == result.args[2]
            having == {<<v.surah, v.ayah>> : v \in
                         {w \in CorpusVerses :
                            \E seg \in SegmentsOf(w) : TrimmedRoot(seg) = R}}
        IN (R # <<>> /\ limit >= Cardinality(having))
              => ReturnedKeys(result.value) = having

\* a root search has returned, untruncated, a verse whose only link to the
\* root is a segment whose stored root carries surrounding whitespace
C1_Witness ==
    /\ result.op = "search_root"
    /\ result.value.kind = "dict"
    /\ result.args[2] >= result.value.total_count
    /\ \E i \in 1..Len(result.value.results) :
          LET v == result.value.results[i].verse
          IN /\ \E seg \in SegmentsOf(v) : TrimmedRoot(seg) = Strip(result.args[1])
             /\ \A seg \in SegmentsOf(v) : seg.root # Strip(result.args[1])

\* C4: every (surah, ayah) held by the root index, the morphological-pattern
\* index or the syntax n-gram index is the identity of a verse of the corpus
\* and resolves through verse_lookup to that verse.
C4_IndexIntegrity ==
    LET indexed ==
            UNION {root_index[r] : r \in DOMAIN root_index}
            \cup UNION {morph_pattern_index[i].verses :
                          i \in 1..Len(morph_pattern_index)}
            \cup UNION {syntax_pattern_index[i].verses :
                          i \in 1..Len(syntax_pattern_index)}
    IN \A loc \in indexed :
          /\ loc \in CorpusKeys
          /\ loc \in DOMAIN verse_lookup
          /\ verse_lookup[loc] \in CorpusVerses
          /\ <<verse_lookup[loc].surah, verse_lookup[loc].ayah>> = loc

\* a build has run on a corpus that fills all three indexes, with a verse
\* whose surah and ayah numbers differ
C4_Witness ==
    /\ result.op = "build_linguistic_indexes"
    /\ DOMAIN root_index # {}
    /\ morph_pattern_index # <<>>
    /\ syntax_pattern_index # <<>>
    /\ \E r \in DOMAIN root_index : \E loc \in root_index[r] : loc[1] # loc[2]

\* C5: a call of build_linguistic_indexes on a corpus that has not changed
\* since the previous build leaves all three indexes and the three
\* enumeration lists exactly as they were.
\* (a step that ends with result naming build_linguistic_indexes is a step of
\* BuildLinguisticIndexes: no other action writes that name)
C5_RebuildIdempotent ==
    [][result'.op = "build_linguistic_indexes" => indexes' = indexes]_vars

\* a second build has completed over non-empty lists
C5_Witness ==
    /\ result.op = "build_linguistic_indexes"
    /\ root_list # <<>>
    /\ Len(morph_patterns) >= 2
    /\ Len(syntax_patterns) >= 2

\* C9: search_root(R, limit) for an indexed root R returns a record whose
\* results are in strictly ascending (surah, ayah) order and are exactly the
\* min(limit, n) smallest locations of the entry of size n; total_count = n.
C9_RootSearchOrdered ==
    result.op = "search_root" =>
        LET R == Strip(result.args[1])
            limit == result.args[2]
        IN R \in DOMAIN root_index =>
            LET entry == root_index[R]
                n == Cardinality(entry)
                value == result.value
                key(i) == <<value.results[i].verse.surah,
                            value.results[i].verse.ayah>>
                Before(a, b) == a[1] < b[1] \/ (a[1] = b[1] /\ a[2] < b[2])
            IN /\ value.kind = "dict"
               /\ value.total_count = n
               /\ Len(value.results) = (IF limit < n THEN limit ELSE n)
               /\ \A i \in 1..Len(value.results) :
                     /\ key(i) \in entry
                     /\ Cardinality({loc \in entry : Before(loc, key(i))}) = i - 1

\* a root search truncated by its limit, over an entry whose verses are
\* stored in the corpus in descending order
C9_Witness ==
    /\ result.op = "search_root"
    /\ result.value.kind = "dict"
    /\ result.args[2] >= 1
    /\ Len(result.value.results) = result.args[2]
    /\ result.value.total_count > result.args[2]
    /\ \E i, j \in 1..Len(verses) :
          /\ i < j
          /\ {VerseKey(verses[i]), VerseKey(verses[j])}
                \subseteq root_index[Strip(result.args[1])]
          /\ TupleLess(VerseKey(verses[j]), VerseKey(verses[i]))

LabelThenKeyOrder(list) ==
    \A i, j \in 1..Len(list) :
        i < j => \/ StrLess(list[i].label, list[j].label)
                 \/ /\ list[i].label = list[j].label
                    /\ StrLess(list[i].id, list[j].id)

\* C10 as stated: the lists returned by get_morph_patterns and
\* get_syntax_patterns are sorted by label ascending, entries of equal
\* label by key ascending.
C10_TiesByKey ==
    result.op \in {"get_morph_patterns", "get_syntax_patterns"}
        => LabelThenKeyOrder(result.value)

PositionIn(meta, id) == CHOOSE i \in 1..Len(meta) : meta[i].id = id

LabelThenInsertionOrder(list, meta) ==
    /\ Len(list) = Len(meta)
    /\ \A i \in 1..Len(list) :
          \E m \in 1..Len(meta) :
              /\ meta[m].id = list[i].id
              /\ meta[m].label = list[i].label
              /\ Cardinality(meta[m].verses) = list[i].count
    /\ \A i, j \in 1..Len(list) :
          i < j => \/ StrLess(list[i].label, list[j].label)
                   \/ /\ list[i].label = list[j].label
                      /\ PositionIn(meta, list[i].id) < PositionIn(meta, list[j].id)

\* C10 amended: the lists returned by get_morph_patterns and
\* get_syntax_patterns hold one {id, label, count} entry per index key, sorted
\* by label ascending; entries of equal label keep the order in which their
\* keys were first added to the index during the pass over the corpus.
C10_TiesByInsertion ==
    /\ result.op = "get_morph_patterns"
          => LabelThenInsertionOrder(result.value, morph_pattern_index)
    /\ result.op = "get_syntax_patterns"
          => LabelThenInsertionOrder(result.value, syntax_pattern_index)

\* get_morph_patterns has returned two entries of equal label whose keys
\* are in descending order
C10_Witness ==
    /\ result.op = "get_morph_patterns"
    /\ \E i, j \in 1..Len(result.value) :
          /\ i < j
          /\ result.value[i].label = result.value[j].label
          /\ StrLess(result.value[j].id, result.value[i].id)

-----------------------------------------------------------------------------
(* The rebuild specification: build_linguistic_indexes running statement   *)
(* by statement while readers are served, after an out-of-band change of   *)
(* the verse data.  The method takes no lock (no lock exists in app.py),   *)
(* and a reader may run between any two of its assignments.                *)

RebuildTokenLists ==
    { <<Token(S_r, None, <<SegA>>)>>,
      <<Token(None, None, <<SegB>>), Token(S_k, None, <<SegE>>)>> }

InitRebuild ==
    \E corpus \in Corpora(Locations, {Content(<<>>, tokens) : tokens \in RebuildTokenLists}) :
        Constructed(corpus)

\* an out-of-band mutation of a verse's tokens; verse_lookup holds the same
\* verse objects as the verse list and shows the change too
MutateVerse ==
    \E i \in 1..Len(verses), tokens \in RebuildTokenLists :
        /\ pc = "idle"
        /\ tokens # verses[i].tokens
        /\ verses' = [verses EXCEPT ![i].tokens = tokens]
        /\ verse_lookup' = BuildVerseLookup(EmptyMap, verses')
        /\ result' = Returned("mutate", <<i>>, None)
        /\ UNCHANGED <<indexes, pc, snapshot, store, reader>>

\* lines 149-185: the pass over the corpus fills the locals
RebuildPass ==
    /\ pc = "idle"
    /\ snapshot' = BuildLocals(verses)
    /\ pc' = "line187"
    /\ UNCHANGED <<verses, verse_lookup, indexes, result, store, reader>>

\* line 187: self.root_index = root_map
Assign187 ==
    /\ pc = "line187"
    /\ root_index' = snapshot.root_map
    /\ pc' = "line188"
    /\ UNCHANGED <<verses, verse_lookup, root_list, morph_pattern_index,
                   morph_patterns, syntax_pattern_index, syntax_patterns,
                   snapshot, result, store, reader>>

\* line 188: self.root_list = sorted(root_map.keys())
Assign188 ==
    /\ pc = "line188"
    /\ root_list' = RootList(snapshot.root_map)
    /\ pc' = "line190"
    /\ UNCHANGED <<verses, verse_lookup, root_index, morph_pattern_index,
                   morph_patterns, syntax_pattern_index, syntax_patterns,
                   snapshot, result, store, reader>>

\* line 190: self.morph_pattern_index = morph_meta
Assign190 ==
    /\ pc = "line190"
    /\ morph_pattern_index' = snapshot.morph_meta
    /\ pc' = "line191"
    /\ UNCHANGED <<verses, verse_lookup, root_index, root_list, morph_patterns,
                   syntax_pattern_index, syntax_patterns, snapshot, result, store, reader>>

\* lines 191-201: self.morph_patterns = sorted([...])
Assign191 ==
    /\ pc = "line191"
    /\ morph_patterns' = PatternList(snapshot.morph_meta)
    /\ pc' = "line203"
    /\ UNCHANGED <<verses, verse_lookup, root_index, root_list,
                   morph_pattern_index, syntax_pattern_index, syntax_patterns,
                   snapshot, result, store, reader>>

\* line 203: self.syntax_pattern_index = syntax_meta
Assign203 ==
    /\ pc = "line203"
    /\ syntax_pattern_index' = snapshot.syntax_meta
    /\ pc' = "line204"
    /\ UNCHANGED <<verses, verse_lookup, root_index, root_list,
                   morph_pattern_index, morph_patterns, syntax_patterns,
                   snapshot, result, store, reader>>

\* lines 204-214: self.syntax_patterns = sorted([...]); the method returns
Assign204 ==
    /\ pc = "line204"
    /\ syntax_patterns' = PatternList(snapshot.syntax_meta)
    /\ pc' = "idle"
    /\ snapshot' = FreshLocals
    /\ UNCHANGED <<verses, verse_lookup, root_index, root_list,
                   morph_pattern_index, morph_patterns, syntax_pattern_index,
                   result, store, reader>>

NextRebuild ==
    \/ MutateVerse
    \/ RebuildPass
    \/ Assign187
    \/ Assign188
    \/ Assign190
    \/ Assign191
    \/ Assign203
    \/ Assign204
    \/ SearchRoot
    \/ GetRootList
    \/ GetMorphPatterns
    \/ GetSyntaxPatterns

SpecRebuild == InitRebuild /\ [][NextRebuild]_vars

ListsKeysOf(list, meta) ==
    /\ {list[i].id : i \in 1..Len(list)} = {meta[i].id : i \in 1..Len(meta)}
    /\ \A i \in 1..Len(list) : \A m \in 1..Len(meta) :
          meta[m].id = list[i].id =>
              /\ list[i].label = meta[m].label
              /\ list[i].count = Cardinality(meta[m].verses)

\* C6: while build_linguistic_indexes runs beside readers, what a reader
\* can see is never a mix of an old and a new snapshot: root_list lists
\* the keys of root_index, morph_patterns lists morph_pattern_index and
\* syntax_patterns lists syntax_pattern_index, at every moment.
C6_NoMixedSnapshot ==
    /\ {root_list[i] : i \in 1..Len(root_list)} = DOMAIN root_index
    /\ ListsKeysOf(morph_patterns, morph_pattern_index)
    /\ ListsKeysOf(syntax_patterns, syntax_pattern_index)

-----------------------------------------------------------------------------
(* The pattern compiler and its matcher (search_pattern_word).  The regex   *)
(* string is kept as its parts: the two lookaround assertions and, per     *)
(* slot, the letter unit, the literal diacritics and the two starred       *)
(* classes.  Positions are 0-based as in re; text[p + 1] is the character  *)
(* at position p.                                                          *)

\* arabic_letters = [U+0621-U+064A U+0671-U+0673 U+0675]
IsArabicLetter(c) ==
    LET n == CodePoint(c)
    IN (n >= 1569 /\ n <= 1610) \/ (n >= 1649 /\ n <= 1651) \/ n = 1653

\* diacritic_class = [U+064B-U+0652 U+0670 U+0653-U+0655]
IsDiacritic(c) ==
    LET n == CodePoint(c)
    IN (n >= 1611 /\ n <= 1618) \/ n = 1648 \/ (n >= 1619 /\ n <= 1621)

\* tatweel = U+0640*
IsTatweel(c) == CodePoint(c) = 1600

\* a slot of the pattern spec
Slot(letter, diacritics, any_letter, any_diacritics) ==
    [letter |-> letter, diacritics |-> diacritics, any_letter |-> any_letter,
     any_diacritics |-> any_diacritics]

\* ''.join(re.escape(d) for d in diacritics if d)
RECURSIVE JoinTruthy(_)
JoinTruthy(strings) ==
    IF strings = <<>> THEN <<>>
    ELSE (IF Truthy(Head(strings)) THEN Head(strings) ELSE <<>>)
         \o JoinTruthy(Tail(strings))

\* the part of a slot with the listed diacritics required even when
\* any_diacritics is set
SlotPartListedAlways(seg) ==
    LET any_letter == seg.any_letter \/ ~Truthy(seg.letter)
        diacritics == IF seg.diacritics # None THEN seg.diacritics ELSE <<>>
    IN [any_letter |-> any_letter,
        letter |-> IF any_letter THEN <<>> ELSE seg.letter,
        specific |-> JoinTruthy(diacritics)]

\* lines 817-830: the part of the regex emitted for one slot
SlotPart(seg) ==
    LET any_letter == seg.any_letter \/ ~Truthy(seg.letter)
        diacritics == IF seg.diacritics # None THEN seg.diacritics ELSE <<>>
    IN [any_letter |-> any_letter,
        letter |-> IF any_letter THEN <<>> ELSE seg.letter,
        specific |-> IF seg.any_diacritics THEN <<>> ELSE JoinTruthy(diacritics)]

\* a compiled regex with the right assertion (?!\S) left out
PatternSegmentsToRegexOpenRight(segments, allow_prefix, allow_suffix) ==
    [left |-> ~allow_prefix,
     parts |-> [i \in 1..Len(segments) |-> SlotPart(segments[i])],
     right |-> FALSE]

\* _pattern_segments_to_regex: left is (?<!\S) present, right is (?!\S) present
PatternSegmentsToRegex(segments, allow_prefix, allow_suffix) ==
    [left |-> ~allow_prefix,
     parts |-> [i \in 1..Len(segments) |-> SlotPart(segments[i])],
     right |-> ~allow_suffix]

\* does the literal lit stand in text at position p
LiteralAt(text, p, lit) ==
    /\ p + Len(lit) <= Len(text)
    /\ \A i \in 1..Len(lit) : text[p + i] = lit[i]

\* the longest run of diacritic_class characters from position p
RECURSIVE DiacriticRun(_, _)
DiacriticRun(text, p) ==
    IF p < Len(text) /\ IsDiacritic(text[p + 1])
    THEN 1 + DiacriticRun(text, p + 1)
    ELSE 0

\* the longest run of elongation marks from position p
RECURSIVE TatweelRun(_, _)
TatweelRun(text, p) ==
    IF p < Len(text) /\ IsTatweel(text[p + 1])
    THEN 1 + TatweelRun(text, p + 1)
    ELSE 0

\* (?<!\S) at p and (?!\S) at p
NotAfterNonSpace(text, p) == p = 0 \/ IsSpace(text[p])
NotBeforeNonSpace(text, p) == p = Len(text) \/ IsSpace(text[p + 1])

\* the backtracking match of parts from position p: the end of the first
\* match in the order a greedy backtracking matcher tries them, or -1
RECURSIVE MatchParts(_, _, _, _), TryTatweel(_, _, _, _, _), TryDiacritics(_, _, _, _, _)
MatchParts(parts, text, p, right) ==
    IF parts = <<>>
    THEN (IF right => NotBeforeNonSpace(text, p) THEN p ELSE -1)
    ELSE LET part == Head(parts)
             letter_ok == IF part.any_letter
                          THEN p < Len(text) /\ IsArabicLetter(text[p + 1])
                          ELSE LiteralAt(text, p, part.letter)
             p1 == p + (IF part.any_letter THEN 1 ELSE Len(part.letter))
         IN IF ~letter_ok \/ ~LiteralAt(text, p1, part.specific) THEN -1
            ELSE LET p2 == p1 + Len(part.specific)
                 IN TryDiacritics(Tail(parts), text, p2,
                                  DiacriticRun(text, p2), right)

\* diacritic_class* taking k marks, then fewer
TryDiacritics(rest, text, p, k, right) ==
    IF k < 0 THEN -1
    ELSE LET r == TryTatweel(rest, text, p + k,
                             TatweelRun(text, p + k), right)
         IN IF r # -1 THEN r ELSE TryDiacritics(rest, text, p, k - 1, right)

\* U+0640* taking j elongation marks, then fewer
TryTatweel(rest, text, p, j, right) ==
    IF j < 0 THEN -1
    ELSE LET r == MatchParts(rest, text, p + j, right)
         IN IF r # -1 THEN r ELSE TryTatweel(rest, text, p, j - 1, right)

\* compiled.finditer(text): the non-overlapping matches from left to right
RECURSIVE FindIter(_, _, _)
FindIter(regex, text, p) ==
    IF p > Len(text) THEN <<>>
    ELSE LET e == IF regex.left => NotAfterNonSpace(text, p)
                  THEN MatchParts(regex.parts, text, p, regex.right)
                  ELSE -1
         IN IF e = -1 THEN FindIter(regex, text, p + 1)
            ELSE <<[start |-> p, end |-> e]>>
                 \o FindIter(regex, text, IF e > p THEN e ELSE p + 1)

\* a pattern spec that is a mapping with a 'segments' entry, a mapping
\* without one, and a value that is not a mapping (a JSON list)
PatternSpec(segments, allow_prefix, allow_suffix) ==
    [mapping |-> TRUE, has_segments |-> TRUE, segments |-> segments,
     allow_prefix |-> allow_prefix, allow_suffix |-> allow_suffix]

PatternSpecWithoutSegments(allow_prefix, allow_suffix) ==
    [mapping |-> TRUE, has_segments |-> FALSE, segments |-> <<>>,
     allow_prefix |-> allow_prefix, allow_suffix |-> allow_suffix]

NotAMapping ==
    [mapping |-> FALSE, has_segments |-> FALSE, segments |-> <<>>,
     allow_prefix |-> FALSE, allow_suffix |-> FALSE]

\* the loop over the verses with total_matches raised only for a verse that
\* is returned
RECURSIVE PatternScanCountingReturned(_, _, _, _, _)
PatternScanCountingReturned(vs, regex, limit, results, total_matches) ==
    IF vs = <<>> THEN PyDict(results, total_matches)
    ELSE LET verse == Head(vs)
             text == OrElse(verse.text, <<>>)
             matches == FindIter(regex, text, 0)
         IN IF matches # <<>> /\ Len(results) < limit
            THEN PatternScanCountingReturned(Tail(vs), regex, limit,
                     Append(results,
                            [verse |-> verse,
                             match |-> <<"P", "a", "t", "t", "e", "r", "n", " ",
                                        "m", "a", "t", "c", "h">>,
                             match_regex |-> regex,
                             match_count |-> Len(matches)]),
                     total_matches + Len(matches))
            ELSE PatternScanCountingReturned(Tail(vs), regex, limit, results,
                                             total_matches)

\* lines 797-808: the loop over the verses
RECURSIVE PatternScan(_, _, _, _, _)
PatternScan(vs, regex, limit, results, total_matches) ==
    IF vs = <<>> THEN PyDict(results, total_matches)
    ELSE LET verse == Head(vs)
             text == OrElse(verse.text, <<>>)
             matches == FindIter(regex, text, 0)
         IN IF matches # <<>>
            THEN PatternScan(Tail(vs), regex, limit,
                     IF Len(results) < limit
                     THEN Append(results,
                                 [verse |-> verse,
                                  match |-> <<"P", "a", "t", "t", "e", "r", "n", " ",
                                             "m", "a", "t", "c", "h">>,
                                  match_regex |-> regex,
                                  match_count |-> Len(matches)])
                     ELSE results,
                     total_matches + Len(matches))
            ELSE PatternScan(Tail(vs), regex, limit, results, total_matches)

\* search_pattern_word without the guard of lines 784-785
SearchPatternWordUnguarded(vs, pattern_spec, limit) ==
    PatternScan(vs,
                PatternSegmentsToRegex(pattern_spec.segments,
                                       pattern_spec.allow_prefix,
                                       pattern_spec.allow_suffix),
                limit, <<>>, 0)

\* search_pattern_word: segments is None unless pattern_spec is a dict
\* holding 'segments'; None and the empty list both return [] at line 785
SearchPatternWordOn(vs, pattern_spec, limit) ==
    LET no_segments == \/ ~pattern_spec.mapping
                       \/ ~pattern_spec.has_segments
                       \/ pattern_spec.segments = <<>>
    IN IF no_segments THEN PyList(<<>>)
       ELSE PatternScan(vs,
                PatternSegmentsToRegex(pattern_spec.segments,
                                       pattern_spec.allow_prefix,
                                       pattern_spec.allow_suffix),
                limit, <<>>, 0)

-----------------------------------------------------------------------------
(* The pattern specification: the compiled pattern run over one verse text *)
(* (lines 789, 795 and 799 of search_pattern_word).                        *)

SlotBa == Slot(<<"BA">>, <<>>, FALSE, FALSE)
SlotBaFatha == Slot(<<"BA">>, <<<<"FATHA">>>>, FALSE, FALSE)
SlotBaAnyMarks == Slot(<<"BA">>, <<<<"FATHA">>>>, FALSE, TRUE)
SlotAny == Slot(None, None, TRUE, FALSE)
SlotNoLetter == Slot(<<>>, <<>>, FALSE, TRUE)

SlotLists ==
    { <<SlotBa>>, <<SlotBaFatha>>, <<SlotBaAnyMarks>>, <<SlotAny>>,
      <<SlotBa, SlotNoLetter>>, <<SlotBaFatha, SlotBa>>, <<SlotAny, SlotBaAnyMarks>> }

CompilableSpecs ==
    {PatternSpec(segments, allow_prefix, allow_suffix) :
        segments \in SlotLists, allow_prefix \in BOOLEAN, allow_suffix \in BOOLEAN}

TextChars == {"BA", "FATHA", "TATWEEL", " "}

RECURSIVE TextsOfLength(_)
TextsOfLength(n) ==
    IF n = 0 THEN {<<>>}
    ELSE {Append(t, c) : t \in TextsOfLength(n - 1), c \in TextChars}

Texts == UNION {TextsOfLength(n) : n \in 0..MaxTextLen}

InitPattern == \E text \in Texts : Constructed(<<Verse(1, 1, text, <<>>)>>)

\* lines 789, 795, 799: regex built, compiled and run over a verse's text
PatternFindIter ==
    \E i \in 1..Len(verses), pattern_spec \in CompilableSpecs :
        LET regex == PatternSegmentsToRegex(pattern_spec.segments,
                                            pattern_spec.allow_prefix,
                                            pattern_spec.allow_suffix)
            text == OrElse(verses[i].text, <<>>)
        IN /\ result' = Returned("finditer", <<pattern_spec, text>>,
                                 [regex |-> regex,
                                  matches |-> FindIter(regex, text, 0)])
           /\ UNCHANGED <<verses, verse_lookup, indexes, pc, snapshot, store, reader>>

NextPattern == PatternFindIter

SpecPattern == InitPattern /\ [][NextPattern]_vars

\* C7: with allow_prefix = false and allow_suffix = false every match
\* starts at the beginning of the text or right after whitespace and ends at
\* the end of the text or right before whitespace; in general the left
\* condition is imposed exactly when allow_prefix is false and the right
\* condition exactly when allow_suffix is false.
C7_WholeWordMatches ==
    result.op = "finditer" =>
        LET pattern_spec == result.args[1]
            text == result.args[2]
            matches == result.value.matches
        IN /\ result.value.regex.left = ~pattern_spec.allow_prefix
           /\ result.value.regex.right = ~pattern_spec.allow_suffix
           /\ \A m \in 1..Len(matches) :
                 /\ matches[m].start < matches[m].end
                 /\ ~pattern_spec.allow_prefix =>
                       (matches[m].start = 0 \/ text[matches[m].start] = " ")
                 /\ ~pattern_spec.allow_suffix =>
                       (matches[m].end = Len(text)
                          \/ text[matches[m].end + 1] = " ")

\* a whole-word pattern has matched the second word of a text, and not its
\* first word, which only begins with the pattern
C7_Witness ==
    /\ result.op = "finditer"
    /\ ~result.args[1].allow_prefix
    /\ ~result.args[1].allow_suffix
    /\ Len(result.value.matches) = 1
    /\ result.value.matches[1].start > 1
    /\ result.args[2][1] = "BA"
    /\ result.args[1].segments = <<SlotBa>>

-----------------------------------------------------------------------------
(* The remaining query operations of CorpusManager.                        *)

\* segment.get(field, '') of an absent field
GetOrEmpty(x) == IF x = None THEN <<>> ELSE x

\* _build_search_results
RECURSIVE BuildSearchResults(_, _, _)
BuildSearchResults(refs, lookup, match_label) ==
    IF refs = <<>> THEN <<>>
    ELSE (IF Head(refs) \notin DOMAIN lookup THEN <<>>
          ELSE <<[verse |-> lookup[Head(refs)],
                  match |-> IF Truthy(match_label) THEN match_label ELSE None]>>)
         \o BuildSearchResults(Tail(refs), lookup, match_label)

\* search_morph_pattern and search_syntax_pattern: they return a list
SearchPatternIdOn(meta, lookup, pattern_id, limit) ==
    IF ~Truthy(pattern_id) \/ ~\E i \in 1..Len(meta) : meta[i].id = pattern_id
    THEN PyList(<<>>)
    ELSE LET entry == meta[CHOOSE i \in 1..Len(meta) : meta[i].id = pattern_id]
         IN PyList(BuildSearchResults(Slice(SortedTuples(entry.verses), limit),
                                      lookup, entry.label))

\* line 626: any(q in str(field).lower() for field in fields if field)
SegmentMatches(segment, q) ==
    \E field \in {segment.type, segment.pos, segment.root, segment.lemma,
                  segment.features} :
        Truthy(field) /\ Contains(Lower(field), q)

\* the first (token, segment) of a verse, in reading order, that matches q
RECURSIVE FirstMorphMatch(_, _)
FirstMorphMatch(tokens, q) ==
    IF tokens = <<>> THEN None
    ELSE LET token == Head(tokens)
             hits == {i \in 1..Len(token.segments) :
                        SegmentMatches(token.segments[i], q)}
         IN IF hits # {}
            THEN <<token, token.segments[CHOOSE i \in hits :
                                            \A j \in hits : i <= j]>>
            ELSE FirstMorphMatch(Tail(tokens), q)

\* line 629: f"{type.upper()} BULLET {pos} BULLET {lemma or ''}".strip()
MorphMatchDesc(segment) ==
    Strip(Upper(GetOrEmpty(segment.type)) \o <<" ", "BULLET", " ">>
          \o GetOrEmpty(segment.pos) \o <<" ", "BULLET", " ">>
          \o GetOrEmpty(segment.lemma))

\* the loop of search_morphology with total_count counting every matching
\* segment of a verse, not the verse
RECURSIVE MorphologyScanPerSegment(_, _, _, _, _, _)
MorphologyScanPerSegment(vs, i, q, limit, results, total_count) ==
    IF vs = <<>> THEN PyDict(results, total_count)
    ELSE LET verse == Head(vs)
             hit == FirstMorphMatch(verse.tokens, q)
             n == Cardinality({tk \in UNION {{<<t, k>> :
                                       k \in 1..Len(verse.tokens[t].segments)} :
                                     t \in 1..Len(verse.tokens)} :
                                 SegmentMatches(
                                     verse.tokens[tk[1]].segments[tk[2]], q)})
         IN IF hit = None
            THEN MorphologyScanPerSegment(Tail(vs), i + 1, q, limit, results,
                                          total_count)
            ELSE MorphologyScanPerSegment(Tail(vs), i + 1, q, limit,
                     IF Len(results) < limit
                     THEN Append(results,
                                 [index |-> i, verse |-> verse,
                                  match |-> MorphMatchDesc(hit[2]),
                                  match_term |->
                                      IF Truthy(hit[1].form) THEN hit[1].form
                                      ELSE None])
                     ELSE results,
                     total_count + n)

\* lines 612-642: the loop of search_morphology from verse index i on
RECURSIVE MorphologyScan(_, _, _, _, _, _)
MorphologyScan(vs, i, q, limit, results, total_count) ==
    IF vs = <<>> THEN PyDict(results, total_count)
    ELSE LET verse == Head(vs)
             hit == FirstMorphMatch(verse.tokens, q)
         IN IF hit = None
            THEN MorphologyScan(Tail(vs), i + 1, q, limit, results, total_count)
            ELSE MorphologyScan(Tail(vs), i + 1, q, limit,
                     IF Len(results) < limit
                     THEN Append(results,
                                 [index |-> i, verse |-> verse,
                                  match |-> MorphMatchDesc(hit[2]),
                                  match_term |->
                                      IF Truthy(hit[1].form) THEN hit[1].form
                                      ELSE None])
                     ELSE results,
                     total_count + 1)

\* search_morphology
SearchMorphologyOn(vs, query, limit) ==
    LET q == Lower(Strip(query))
    IN IF q = <<>> THEN PyList(<<>>)
       ELSE MorphologyScan(vs, 0, q, limit, <<>>, 0)

\* lines 659-664 without .lower() on the POS code
SyntaxPosSequenceCased(tokens) ==
    [t \in 1..Len(tokens) |->
        IF tokens[t].segments # <<>>
        THEN GetOrEmpty(tokens[t].segments[1].pos)
        ELSE <<>>]

\* lines 659-664: one entry per token, '' for a token without a POS
SyntaxPosSequence(tokens) ==
    [t \in 1..Len(tokens) |->
        Lower(IF tokens[t].segments # <<>>
              THEN GetOrEmpty(tokens[t].segments[1].pos)
              ELSE <<>>)]

\* lines 680-682: the forms of the window's tokens
RECURSIVE TruthyForms(_)
TruthyForms(tokens) ==
    IF tokens = <<>> THEN <<>>
    ELSE (IF Truthy(Head(tokens).form) THEN <<Head(tokens).form>> ELSE <<>>)
         \o TruthyForms(Tail(tokens))

\* lines 655-684: the loop of search_syntax from verse index i on
RECURSIVE SyntaxScan(_, _, _, _, _, _)
SyntaxScan(vs, i, tokens, limit, results, total_count) ==
    IF vs = <<>> THEN PyDict(results, total_count)
    ELSE LET verse == Head(vs)
             length == Len(tokens)
             pos_sequence == SyntaxPosSequence(verse.tokens)
             starts == {st \in 1..(Len(pos_sequence) - length + 1) :
                          SubSeq(pos_sequence, st, st + length - 1) = tokens}
         IN IF verse.tokens = <<>> \/ starts = {}
            THEN SyntaxScan(Tail(vs), i + 1, tokens, limit, results, total_count)
            ELSE LET start == CHOOSE st \in starts : \A o \in starts : st <= o
                     window == SubSeq(pos_sequence, start, start + length - 1)
                     window_forms ==
                         TruthyForms(SubSeq(verse.tokens, start,
                                            start + length - 1))
                 IN SyntaxScan(Tail(vs), i + 1, tokens, limit,
                        IF Len(results) < limit
                        THEN Append(results,
                                 [index |-> i, verse |-> verse,
                                  match |->
                                      <<"P", "O", "S", " ", "p", "a", "t", "t", "e", "r", "n",
                                        ":", " ">>
                                      \o Join(<<" ">>,
                                              [k \in 1..Len(window) |->
                                                  Upper(window[k])]),
                                  match_term |->
                                      IF window_forms # <<>>
                                      THEN Join(<<" ">>, window_forms)
                                      ELSE None])
                        ELSE results,
                        total_count + 1)

\* search_syntax
SearchSyntaxOn(vs, pattern, limit) ==
    LET pieces == SplitPattern(pattern, <<>>)
        tokens == [k \in 1..Len(pieces) |-> Lower(Strip(pieces[k]))]
    IN IF tokens = <<>> THEN PyList(<<>>)
       ELSE SyntaxScan(vs, 0, tokens, limit, <<>>, 0)

-----------------------------------------------------------------------------
(* The feature decoder (parse_morphological_features) and the verb-form    *)
(* search built on it (api_search_verb_forms).                             *)

RECURSIVE Repeat(_, _)
Repeat(c, n) == IF n = 0 THEN <<>> ELSE <<c>> \o Repeat(c, n - 1)

\* the strings of (I{1,3}V?|VI{0,3}|I?X)
VerbFormNumerals ==
    {Repeat("I", n) \o v : n \in 1..3, v \in {<<>>, <<"V">>}}
    \cup {<<"V">> \o Repeat("I", n) : n \in 0..3}
    \cup {i \o <<"X">> : i \in {<<>>, <<"I">>}}

\* the numeral x for which "(" x ")" stands at position p, if any
NumeralsAt(features_str, p) ==
    {x \in VerbFormNumerals : LiteralAt(features_str, p, <<"(">> \o x \o <<")">>)}

\* the group of the rightmost match, not of the leftmost
VerbFormGroupLast(features_str) ==
    LET hits == {p \in 0..Len(features_str) : NumeralsAt(features_str, p) # {}}
    IN IF hits = {} THEN None
       ELSE CHOOSE x \in NumeralsAt(features_str,
                             CHOOSE p \in hits : \A o \in hits : p >= o) : TRUE

\* re.search(r'\((I{1,3}V?|VI{0,3}|I?X)\)', features_str).group(1), or None
VerbFormGroup(features_str) ==
    LET hits == {p \in 0..Len(features_str) : NumeralsAt(features_str, p) # {}}
    IN IF hits = {} THEN None
       ELSE CHOOSE x \in NumeralsAt(features_str,
                             CHOOSE p \in hits : \A o \in hits : p <= o) : TRUE

AnyIn(s, subs) == \E sub \in subs : Contains(s, sub)

\* lines 322-326 with the tests made on features_str, not on features_upper
DecodeVoiceCaseSensitive(features_str, features_upper) ==
    IF AnyIn(features_str, {<<"A", "C", "T">>, <<"A", "C", "T", "I", "V", "E">>})
    THEN <<"a", "c", "t", "i", "v", "e">>
    ELSE IF AnyIn(features_str, {<<"P", "A", "S", "S">>, <<"P", "A", "S", "S", "I", "V", "E">>})
    THEN <<"p", "a", "s", "s", "i", "v", "e">>
    ELSE None

\* lines 322-326: parsed['voice']
DecodeVoice(features_str, features_upper) ==
    IF AnyIn(features_upper, {<<"A", "C", "T">>, <<"A", "C", "T", "I", "V", "E">>})
    THEN <<"a", "c", "t", "i", "v", "e">>
    ELSE IF AnyIn(features_upper, {<<"P", "A", "S", "S">>, <<"P", "A", "S", "S", "I", "V", "E">>})
    THEN <<"p", "a", "s", "s", "i", "v", "e">>
    ELSE None

\* lines 358-399: pos_map, code and full name
pos_map ==
    { <<<<"N">>, <<"N", "o", "u", "n">>>>,
      <<<<"P", "N">>, <<"P", "r", "o", "p", "e", "r", " ", "N", "o", "u", "n">>>>,
      <<<<"A", "D", "J">>, <<"A", "d", "j", "e", "c", "t", "i", "v", "e">>>>,
      <<<<"V">>, <<"V", "e", "r", "b">>>>,
      <<<<"P">>, <<"P", "r", "e", "p", "o", "s", "i", "t", "i", "o", "n">>>>,
      <<<<"P", "R", "O", "N">>, <<"P", "r", "o", "n", "o", "u", "n">>>>,
      <<<<"D", "E", "T">>, <<"D", "e", "t", "e", "r", "m", "i", "n", "e", "r">>>>,
      <<<<"R", "E", "L">>, <<"R", "e", "l", "a", "t", "i", "v", "e", " ", "P", "r", "o", "n", "o", "u", "n">>>>,
      <<<<"T">>, <<"P", "a", "r", "t", "i", "c", "l", "e">>>>,
      <<<<"N", "E", "G">>, <<"N", "e", "g", "a", "t", "i", "v", "e", " ", "P", "a", "r", "t", "i", "c", "l", "e">>>>,
      <<<<"C", "O", "N", "J">>, <<"C", "o", "n", "j", "u", "n", "c", "t", "i", "o", "n">>>>,
      <<<<"I", "N", "T", "E", "R", "R", "O", "G">>, <<"I", "n", "t", "e", "r", "r", "o", "g", "a", "t", "i", "v", "e">>>>,
      <<<<"V", "O", "C">>, <<"V", "o", "c", "a", "t", "i", "v", "e", " ", "P", "a", "r", "t", "i", "c", "l", "e">>>>,
      <<<<"S", "U", "B">>, <<"S", "u", "b", "o", "r", "d", "i", "n", "a", "t", "i", "n", "g", " ", "C", "o", "n", "j", "u", "n", "c", "t", "i", "o", "n">>>>,
      <<<<"E", "M", "P", "H">>, <<"E", "m", "p", "h", "a", "t", "i", "c", " ", "P", "a", "r", "t", "i", "c", "l", "e">>>>,
      <<<<"I", "M", "P", "V">>, <<"I", "m", "p", "e", "r", "a", "t", "i", "v", "e", " ", "P", "a", "r", "t", "i", "c", "l", "e">>>>,
      <<<<"A", "C", "C">>, <<"A", "c", "c", "u", "s", "a", "t", "i", "v", "e", " ", "P", "a", "r", "t", "i", "c", "l", "e">>>>,
      <<<<"A", "M", "D">>, <<"A", "m", "e", "n", "d", "m", "e", "n", "t", " ", "P", "a", "r", "t", "i", "c", "l", "e">>>>,
      <<<<"A", "N", "S">>, <<"A", "n", "s", "w", "e", "r", " ", "P", "a", "r", "t", "i", "c", "l", "e">>>>,
      <<<<"A", "V", "R">>, <<"A", "v", "e", "r", "s", "i", "o", "n", " ", "P", "a", "r", "t", "i", "c", "l", "e">>>>,
      <<<<"C", "A", "U", "S">>, <<"C", "a", "u", "s", "a", "t", "i", "v", "e", " ", "P", "a", "r", "t", "i", "c", "l", "e">>>>,
      <<<<"C", "E", "R", "T">>, <<"C", "e", "r", "t", "a", "i", "n", "t", "y", " ", "P", "a", "r", "t", "i", "c", "l", "e">>>>,
      <<<<"C", "I", "R", "C">>, <<"C", "i", "r", "c", "u", "m", "s", "t", "a", "n", "t", "i", "a", "l", " ", "P", "a", "r", "t", "i", "c", "l", "e">>>>,
      <<<<"C", "O", "M">>, <<"C", "o", "m", "i", "t", "a", "t", "i", "v", "e", " ", "P", "a", "r", "t", "i", "c", "l", "e">>>>,
      <<<<"C", "O", "N", "D">>, <<"C", "o", "n", "d", "i", "t", "i", "o", "n", "a", "l", " ", "P", "a", "r", "t", "i", "c", "l", "e">>>>,
      <<<<"E", "Q">>, <<"E", "q", "u", "a", "l", "i", "z", "a", "t", "i", "o", "n", " ", "P", "a", "r", "t", "i", "c", "l", "e">>>>,
      <<<<"E", "X", "H">>, <<"E", "x", "h", "o", "r", "t", "a", "t", "i", "o", "n", " ", "P", "a", "r", "t", "i", "c", "l", "e">>>>,
      <<<<"E", "X", "L">>, <<"E", "x", "p", "l", "a", "n", "a", "t", "i", "o", "n", " ", "P", "a", "r", "t", "i", "c", "l", "e">>>>,
      <<<<"E", "X", "P">>, <<"E", "x", "c", "e", "p", "t", "i", "v", "e", " ", "P", "a", "r", "t", "i", "c", "l", "e">>>>,
      <<<<"F", "U", "T">>, <<"F", "u", "t", "u", "r", "e", " ", "P", "a", "r", "t", "i", "c", "l", "e">>>>,
      <<<<"I", "N", "C">>, <<"I", "n", "c", "e", "p", "t", "i", "v", "e", " ", "P", "a", "r", "t", "i", "c", "l", "e">>>>,
      <<<<"I", "N", "T">>, <<"I", "n", "t", "e", "n", "s", "i", "f", "i", "c", "a", "t", "i", "o", "n", " ", "P", "a", "r", "t", "i", "c", "l", "e">>>>,
      <<<<"I", "N", "T", "G">>, <<"I", "n", "t", "e", "r", "r", "o", "g", "a", "t", "i", "v", "e", " ", "P", "a", "r", "t", "i", "c", "l", "e">>>>,
      <<<<"P", "R", "O">>, <<"P", "r", "o", "h", "i", "b", "i", "t", "i", "o", "n", " ", "P", "a", "r", "t", "i", "c", "l", "e">>>>,
      <<<<"R", "E", "M">>, <<"R", "e", "s", "u", "m", "p", "t", "i", "o", "n", " ", "P", "a", "r", "t", "i", "c", "l", "e">>>>,
      <<<<"R", "E", "S">>, <<"R", "e", "s", "t", "r", "i", "c", "t", "i", "o", "n", " ", "P", "a", "r", "t", "i", "c", "l", "e">>>>,
      <<<<"R", "E", "T">>, <<"R", "e", "t", "r", "a", "c", "t", "i", "o", "n", " ", "P", "a", "r", "t", "i", "c", "l", "e">>>>,
      <<<<"R", "S", "L", "T">>, <<"R", "e", "s", "u", "l", "t", " ", "P", "a", "r", "t", "i", "c", "l", "e">>>>,
      <<<<"S", "U", "P">>, <<"S", "u", "p", "p", "l", "e", "m", "e", "n", "t", "a", "l", " ", "P", "a", "r", "t", "i", "c", "l", "e">>>>,
      <<<<"S", "U", "R">>, <<"S", "u", "r", "p", "r", "i", "s", "e", " ", "P", "a", "r", "t", "i", "c", "l", "e">>>> }

\* an unknown code is answered by a fixed name, not by the code itself
GetPosFullNameOrUnknown(pos) ==
    IF \E e \in pos_map : e[1] = pos
    THEN (CHOOSE e \in pos_map : e[1] = pos)[2]
    ELSE <<"U", "n", "k", "n", "o", "w", "n">>

\* _get_pos_full_name: pos_map.get(pos, pos)
GetPosFullName(pos) ==
    IF \E e \in pos_map : e[1] = pos
    THEN (CHOOSE e \in pos_map : e[1] = pos)[2]
    ELSE pos

\* lines 336-342 with the accusative test made before the nominative one
DecodeCaseAccFirst(features_upper) ==
    IF Contains(features_upper, <<"A", "C", "C">>) THEN <<"a", "c", "c", "u", "s", "a", "t", "i", "v", "e">>
    ELSE IF Contains(features_upper, <<"N", "O", "M">>) THEN <<"n", "o", "m", "i", "n", "a", "t", "i", "v", "e">>
    ELSE IF Contains(features_upper, <<"G", "E", "N">>) THEN <<"g", "e", "n", "i", "t", "i", "v", "e">>
    ELSE None

\* lines 336-342: parsed['case']
DecodeCase(features_upper) ==
    IF Contains(features_upper, <<"N", "O", "M">>) THEN <<"n", "o", "m", "i", "n", "a", "t", "i", "v", "e">>
    ELSE IF Contains(features_upper, <<"A", "C", "C">>) THEN <<"a", "c", "c", "u", "s", "a", "t", "i", "v", "e">>
    ELSE IF Contains(features_upper, <<"G", "E", "N">>) THEN <<"g", "e", "n", "i", "t", "i", "v", "e">>
    ELSE None

\* lines 344-352: parsed['tense']
DecodeTense(features_upper) ==
    IF Contains(features_upper, <<"P", "E", "R", "F">>) THEN <<"p", "e", "r", "f", "e", "c", "t">>
    ELSE IF Contains(features_upper, <<"I", "M", "P", "F">>) THEN <<"i", "m", "p", "e", "r", "f", "e", "c", "t">>
    ELSE IF Contains(features_upper, <<"I", "M", "P", "V">>) THEN <<"i", "m", "p", "e", "r", "a", "t", "i", "v", "e">>
    ELSE None

\* lines 344-352: parsed['aspect']
DecodeAspect(features_upper) ==
    IF Contains(features_upper, <<"P", "E", "R", "F">>) THEN <<"p", "e", "r", "f", "e", "c", "t", "i", "v", "e">>
    ELSE IF Contains(features_upper, <<"I", "M", "P", "F">>) THEN <<"i", "m", "p", "e", "r", "f", "e", "c", "t", "i", "v", "e">>
    ELSE None

\* parse_morphological_features
ParseMorphologicalFeatures(segment) ==
    LET features_str == GetOrEmpty(segment.features)
        features_upper == Upper(features_str)
        form == VerbFormGroup(features_str)
        has == features_str # <<>>
    IN [pos |-> GetOrEmpty(segment.pos),
        pos_full |-> GetPosFullName(GetOrEmpty(segment.pos)),
        root |-> segment.root,
        lemma |-> segment.lemma,
        type |-> segment.type,
        features_raw |-> features_str,
        verb_form |->
            IF has /\ form # None THEN <<"F", "o", "r", "m", " ">> \o form ELSE None,
        person |->
            IF ~has THEN None
            ELSE IF AnyIn(features_str, {<<"1", "P">>, <<"1", "S">>, <<"1", "D">>})
                 THEN <<"1", "s", "t">>
            ELSE IF AnyIn(features_str,
                          {<<"2", "P">>, <<"2", "M", "S">>, <<"2", "F", "S">>, <<"2", "M", "D">>,
                           <<"2", "F", "D">>, <<"2", "M", "P">>, <<"2", "F", "P">>})
                 THEN <<"2", "n", "d">>
            ELSE IF AnyIn(features_str,
                          {<<"3", "P">>, <<"3", "M", "S">>, <<"3", "F", "S">>, <<"3", "M", "D">>,
                           <<"3", "F", "D">>, <<"3", "M", "P">>, <<"3", "F", "P">>})
                 THEN <<"3", "r", "d">>
            ELSE None,
        number |->
            IF ~has THEN None
            ELSE IF AnyIn(features_str, {<<"S", "|">>, <<"M", "S">>, <<"F", "S">>})
                    \/ EndsWith(features_str, <<"S">>)
                 THEN <<"s", "i", "n", "g", "u", "l", "a", "r">>
            ELSE IF AnyIn(features_str, {<<"D", "|">>, <<"M", "D">>, <<"F", "D">>})
                    \/ EndsWith(features_str, <<"D">>)
                 THEN <<"d", "u", "a", "l">>
            ELSE IF AnyIn(features_str, {<<"P", "|">>, <<"M", "P">>, <<"F", "P">>})
                    \/ EndsWith(features_str, <<"P">>)
                 THEN <<"p", "l", "u", "r", "a", "l">>
            ELSE None,
        gender |->
            IF ~has THEN None
            ELSE IF AnyIn(features_str,
                          {<<"|", "M", "|">>, <<"|", "M">>, <<"M", "S">>, <<"M", "D">>, <<"M", "P">>})
                 THEN <<"m", "a", "s", "c", "u", "l", "i", "n", "e">>
            ELSE IF AnyIn(features_str,
                          {<<"|", "F", "|">>, <<"|", "F">>, <<"F", "S">>, <<"F", "D">>, <<"F", "P">>})
                 THEN <<"f", "e", "m", "i", "n", "i", "n", "e">>
            ELSE None,
        voice |->
            IF ~has THEN None ELSE DecodeVoice(features_str, features_upper),
        mood |->
            IF ~has THEN None
            ELSE IF Contains(features_str, <<"M", "O", "O", "D", ":", "I", "N", "D">>)
                 THEN <<"i", "n", "d", "i", "c", "a", "t", "i", "v", "e">>
            ELSE IF Contains(features_str, <<"M", "O", "O", "D", ":", "S", "J">>)
                    \/ Contains(features_upper, <<"S", "U", "B", "J">>)
                 THEN <<"s", "u", "b", "j", "u", "n", "c", "t", "i", "v", "e">>
            ELSE IF Contains(features_str, <<"M", "O", "O", "D", ":", "J", "U", "S">>)
                    \/ Contains(features_upper, <<"J", "U", "S">>)
                 THEN <<"j", "u", "s", "s", "i", "v", "e">>
            ELSE None,
        case |-> IF ~has THEN None ELSE DecodeCase(features_upper),
        tense |-> IF ~has THEN None ELSE DecodeTense(features_upper),
        aspect |-> IF ~has THEN None ELSE DecodeAspect(features_upper)]

\* the filters of a verb-form request: request.args.get gives None when absent
VerbFilters(form, person, number, gender, voice, tense) ==
    [form |-> form, person |-> person, number |-> number, gender |-> gender,
     voice |-> voice, tense |-> tense]

\* lines 1662-1674 keeping a segment that passes any one supplied filter
VerbSegmentMatchesAny(parsed, filters) ==
    \/ \A name \in DOMAIN filters : ~Truthy(filters[name])
    \/ Truthy(filters.form) /\ parsed.verb_form = <<"F", "o", "r", "m", " ">> \o filters.form
    \/ Truthy(filters.person) /\ parsed.person = filters.person
    \/ Truthy(filters.number) /\ parsed.number = filters.number
    \/ Truthy(filters.gender) /\ parsed.gender = filters.gender
    \/ Truthy(filters.voice) /\ parsed.voice = filters.voice
    \/ Truthy(filters.tense) /\ parsed.tense = filters.tense

\* lines 1662-1674
VerbSegmentMatches(parsed, filters) ==
    /\ Truthy(filters.form) => parsed.verb_form = <<"F", "o", "r", "m", " ">> \o filters.form
    /\ Truthy(filters.person) => parsed.person = filters.person
    /\ Truthy(filters.number) => parsed.number = filters.number
    /\ Truthy(filters.gender) => parsed.gender = filters.gender
    /\ Truthy(filters.voice) => parsed.voice = filters.voice
    /\ Truthy(filters.tense) => parsed.tense = filters.tense

\* lines 1655-1659 for one token: its segments with pos 'V', decoded, in order
RECURSIVE VerbSegmentsOfSegments(_, _)
VerbSegmentsOfSegments(segments, token) ==
    IF segments = <<>> THEN <<>>
    ELSE LET segment == Head(segments)
             parsed == ParseMorphologicalFeatures(segment)
         IN (IF segment.pos = <<"V">>
             THEN <<[token_form |-> token.form, root |-> parsed.root,
                     lemma |-> parsed.lemma, parsed |-> parsed]>>
             ELSE <<>>)
            \o VerbSegmentsOfSegments(Tail(segments), token)

\* lines 1654-1659 for one verse
RECURSIVE VerbSegmentsOfTokens(_)
VerbSegmentsOfTokens(tokens) ==
    IF tokens = <<>> THEN <<>>
    ELSE VerbSegmentsOfSegments(Head(tokens).segments, Head(tokens))
         \o VerbSegmentsOfTokens(Tail(tokens))

\* the verses with their decoded verb segments: what the loop of line 1649
\* reads, whatever the filters and the limit
DecodedVerses(vs) ==
    [i \in 1..Len(vs) |-> [verse |-> vs[i],
                           verbs |-> VerbSegmentsOfTokens(vs[i].tokens)]]

\* lines 1662-1683: verse_matches, the decoded segments the filters keep
RECURSIVE VerbMatches(_, _)
VerbMatches(verbs, filters) ==
    IF verbs = <<>> THEN <<>>
    ELSE (IF VerbSegmentMatches(Head(verbs).parsed, filters)
          THEN <<Head(verbs)>> ELSE <<>>)
         \o VerbMatches(Tail(verbs), filters)

\* lines 1687-1701
VerbMatchDesc(filters) ==
    LET parts ==
            (IF Truthy(filters.form)
             THEN <<<<"F", "o", "r", "m", " ">> \o filters.form>> ELSE <<>>)
            \o (IF Truthy(filters.person)
                THEN <<filters.person \o <<" ", "p", "e", "r", "s", "o", "n">>>> ELSE <<>>)
            \o (IF Truthy(filters.number) THEN <<filters.number>> ELSE <<>>)
            \o (IF Truthy(filters.gender) THEN <<filters.gender>> ELSE <<>>)
            \o (IF Truthy(filters.voice) THEN <<filters.voice>> ELSE <<>>)
            \o (IF Truthy(filters.tense) THEN <<filters.tense>> ELSE <<>>)
    IN OrElse(Join(<<",", " ">>, parts), <<"V", "e", "r", "b">>)

\* lines 1649-1708: the loop of api_search_verb_forms
RECURSIVE VerbFormScan(_, _, _, _, _)
VerbFormScan(decoded, filters, limit, results, total_count) ==
    IF decoded = <<>> THEN PyDict(results, total_count)
    ELSE LET verse == Head(decoded).verse
             verse_matches == VerbMatches(Head(decoded).verbs, filters)
         IN VerbFormScan(Tail(decoded), filters, limit,
                IF verse_matches # <<>> /\ Len(results) < limit
                THEN Append(results,
                            [verse |-> verse,
                             match |-> VerbMatchDesc(filters),
                             matches |-> Slice(verse_matches, 3),
                             match_count |-> Len(verse_matches)])
                ELSE results,
                total_count + Len(verse_matches))

-----------------------------------------------------------------------------
(* search_text and search_by_root.                                         *)

\* lines 502-509: the loop of search_text from verse index i on
RECURSIVE SearchTextScan(_, _, _, _, _)
SearchTextScan(vs, i, query_lower, limit, results) ==
    IF vs = <<>> THEN results
    ELSE IF Contains(Lower(Head(vs).text), query_lower)
    THEN LET appended == Append(results, [index |-> i, verse |-> Head(vs)])
         IN IF Len(appended) >= limit THEN appended
            ELSE SearchTextScan(Tail(vs), i + 1, query_lower, limit, appended)
    ELSE SearchTextScan(Tail(vs), i + 1, query_lower, limit, results)

\* search_text
SearchTextOn(vs, query, limit) ==
    PyList(SearchTextScan(vs, 0, Lower(query), limit, <<>>))

\* lines 522-529: has_root of one verse
HasRoot(tokens, root) ==
    \E t \in 1..Len(tokens) :
        \E g \in 1..Len(tokens[t].segments) : tokens[t].segments[g].root = root

\* lines 517-538: the loop of search_by_root from verse index i on
RECURSIVE SearchByRootScan(_, _, _, _, _)
SearchByRootScan(vs, i, root, limit, results) ==
    IF vs = <<>> THEN results
    ELSE IF HasRoot(Head(vs).tokens, root)
    THEN LET appended == Append(results, [index |-> i, verse |-> Head(vs)])
         IN IF Len(appended) >= limit THEN appended
            ELSE SearchByRootScan(Tail(vs), i + 1, root, limit, appended)
    ELSE SearchByRootScan(Tail(vs), i + 1, root, limit, results)

\* search_by_root
SearchByRootOn(vs, root, limit) ==
    PyList(SearchByRootScan(vs, 0, root, limit, <<>>))

-----------------------------------------------------------------------------
(* The API specification: the search routes of the Flask application over  *)
(* a constructed CorpusManager, and search_pattern_word called directly.   *)

\* jsonify({'results': ..., 'count': ...}) and an exception leaving the view
Jsonify(results, count) == [kind |-> "response", results |-> results, count |-> count]
Raised(exception) == [kind |-> "error", exception |-> exception]

\* what a call did: the value the CorpusManager handed back (NoData when it
\* was never called) and the outcome of the route (NoResponse outside a
\* request)
Served(data, response) == [data |-> data, response |-> response]
NoData == [kind |-> "none"]
NoResponse == [kind |-> "none"]

\* data['results'], data.get('total_count', len(results)) on a dict; a list
\* raises TypeError on data['results']
ResultsAndCount(data) ==
    IF data.kind = "dict" THEN Jsonify(data.results, data.total_count)
    ELSE Raised("TypeError")

\* api_search_roots
ApiSearchRootsOn(root, limit) ==
    LET data == SearchRootOn(root_index, verse_lookup, root, limit)
    IN Served(data, ResultsAndCount(data))

\* api_search_morphology
ApiSearchMorphologyOn(query, pattern_id, limit) ==
    IF Truthy(pattern_id)
    THEN LET results == SearchPatternIdOn(morph_pattern_index, verse_lookup,
                                          pattern_id, limit)
         IN Served(results, Jsonify(results.items, Len(results.items)))
    ELSE LET data == SearchMorphologyOn(verses, query, limit)
         IN Served(data, ResultsAndCount(data))

\* api_search_syntax
ApiSearchSyntaxOn(query, pattern_id, limit) ==
    IF Truthy(pattern_id)
    THEN LET results == SearchPatternIdOn(syntax_pattern_index, verse_lookup,
                                          pattern_id, limit)
         IN Served(results, Jsonify(results.items, Len(results.items)))
    ELSE LET data == SearchSyntaxOn(verses, query, limit)
         IN Served(data, ResultsAndCount(data))

\* api_search_pattern_word: payload.get('limit', 50) raises AttributeError
\* on a payload that is not a mapping
ApiSearchPatternWordOn(payload, limit) ==
    IF ~payload.mapping THEN Served(NoData, Raised("AttributeError"))
    ELSE LET data == SearchPatternWordOn(verses, payload, limit)
         IN Served(data, ResultsAndCount(data))

\* api_search_verb_forms
ApiSearchVerbFormsOn(decoded, filters, limit) ==
    LET data == VerbFormScan(decoded, filters, limit, <<>>, 0)
    IN Served(data, Jsonify(data.results, data.total_count))

\* api_search
ApiSearchOn(query, search_type, limit) ==
    LET results == IF search_type = "root" THEN SearchByRootOn(verses, query, limit)
                   ELSE SearchTextOn(verses, query, limit)
    IN Served(results, Jsonify(results.items, Len(results.items)))

SegV1 == Segment(None, S_V, S_k, None, <<"(", "I", "V", ")", "|", "3", "M", "S", "|", "A", "C", "T", "|", "P", "E", "R", "F">>)
SegV2 == Segment(None, S_V, None, None, <<"(", "I", "V", ")", "|", "3", "F", "S", "|", "P", "A", "S", "S", "|", "I", "M", "P", "F">>)
SegP == Segment(None, S_P, None, None, None)
SegPN == Segment(None, <<"P", "N">>, S_r, None, None)

ApiContents ==
    { Content(<<"BA", " ", "BA">>, <<Token(S_r, None, <<SegA>>)>>),
      Content(<<"BA", "FATHA">>,
              <<Token(S_k, None, <<SegV1, SegV2, SegV1, SegV1>>),
                Token(None, None, <<SegP>>),
                Token(S_r, None, <<SegPN>>)>>),
      Content(<<"BA">>, <<Token(S_k, None, <<SegV1, SegV2>>)>>),
      Content(<<>>, <<>>) }

ApiMorphQueries == {S_n, S_V, <<" ">>, <<>>}
ApiMorphPatternIds == {<<"s", "t", "e", "m", "|", "n", "|", "|">>, <<"s", "t", "e", "m", "|", "x", "|", "|">>}
ApiSyntaxQueries == {<<"p", " ", "p", "n">>, <<"V", ">", "P">>, <<",">>, <<>>}
ApiSyntaxPatternIds == {<<"v", "|", "p">>, <<"p", "|", "v">>}
ApiPayloads ==
    { PatternSpec(<<SlotBa>>, FALSE, FALSE), PatternSpec(<<SlotBa>>, TRUE, TRUE),
      PatternSpec(<<>>, TRUE, TRUE), PatternSpecWithoutSegments(FALSE, FALSE),
      NotAMapping }
ApiVerbFilters ==
    { VerbFilters(None, None, None, None, None, None),
      VerbFilters(<<"I", "V">>, None, None, None, None, None),
      VerbFilters(None, <<"3", "r", "d">>, <<"s", "i", "n", "g", "u", "l", "a", "r">>, <<"m", "a", "s", "c", "u", "l", "i", "n", "e">>, None, None),
      VerbFilters(None, None, None, None, <<"p", "a", "s", "s", "i", "v", "e">>, None),
      VerbFilters(None, None, None, None, <<"p", "a", "s", "s", "i", "v", "e">>, <<"p", "e", "r", "f", "e", "c", "t">>) }

ApiLocations == {<<1, 1>>, <<1, 2>>}

InitApi == \E corpus \in Corpora(ApiLocations, ApiContents) : Constructed(corpus)

ApiSearchRoots ==
    \E root \in RootQueries, limit \in Limits :
        /\ result' = Returned("api_search_roots", <<root, limit>>,
                              ApiSearchRootsOn(root, limit))
        /\ root_index' = RootIndexAfterSearchRoot(root_index, root)
        /\ UNCHANGED <<verses, verse_lookup, root_list, morph_pattern_index,
                       morph_patterns, syntax_pattern_index, syntax_patterns,
                       pc, snapshot, store, reader>>

ApiSearchMorphology ==
    \E request \in {<<q, None>> : q \in ApiMorphQueries}
                   \cup {<<<<>>, id>> : id \in ApiMorphPatternIds},
       limit \in Limits :
        /\ result' = Returned("api_search_morphology",
                              <<request[1], request[2], limit>>,
                              ApiSearchMorphologyOn(request[1], request[2], limit))
        /\ UNCHANGED <<verses, verse_lookup, indexes, pc, snapshot, store, reader>>

ApiSearchSyntax ==
    \E request \in {<<q, None>> : q \in ApiSyntaxQueries}
                   \cup {<<<<>>, id>> : id \in ApiSyntaxPatternIds},
       limit \in Limits :
        /\ result' = Returned("api_search_syntax",
                              <<request[1], request[2], limit>>,
                              ApiSearchSyntaxOn(request[1], request[2], limit))
        /\ UNCHANGED <<verses, verse_lookup, indexes, pc, snapshot, store, reader>>

ApiSearchPatternWord ==
    \E payload \in ApiPayloads, limit \in Limits :
        /\ result' = Returned("api_search_pattern_word", <<payload, limit>>,
                              ApiSearchPatternWordOn(payload, limit))
        /\ UNCHANGED <<verses, verse_lookup, indexes, pc, snapshot, store, reader>>

\* (the decoding of the segments is the same for every request, so it is
\* bound once for all of them)
ApiSearchVerbForms ==
    \E decoded \in {DecodedVerses(verses)} :
      \E filters \in ApiVerbFilters, limit \in Limits :
        /\ result' = Returned("api_search_verb_forms", <<filters, limit>>,
                              ApiSearchVerbFormsOn(decoded, filters, limit))
        /\ UNCHANGED <<verses, verse_lookup, indexes, pc, snapshot, store, reader>>

ApiTextQueries == {<<"BA">>, S_r, <<>>}

ApiSearch ==
    \E query \in ApiTextQueries, search_type \in {"text", "root"}, limit \in Limits :
        /\ result' = Returned("api_search", <<query, search_type, limit>>,
                              ApiSearchOn(query, search_type, limit))
        /\ UNCHANGED <<verses, verse_lookup, indexes, pc, snapshot, store, reader>>

\* search_pattern_word called by a collaborator, outside a request
SearchPatternWord ==
    \E pattern_spec \in ApiPayloads, limit \in Limits :
        /\ result' = Returned("search_pattern_word", <<pattern_spec, limit>>,
                              Served(SearchPatternWordOn(verses, pattern_spec, limit),
                                     NoResponse))
        /\ UNCHANGED <<verses, verse_lookup, indexes, pc, snapshot, store, reader>>

\* parse_morphological_features takes the segment and returns a new dict;
\* it writes to nothing it was given
ParseFeatures ==
    \E v \in 1..Len(verses) :
      \E t \in 1..Len(verses[v].tokens) :
        \E g \in 1..Len(verses[v].tokens[t].segments) :
          LET segment == verses[v].tokens[t].segments[g]
          IN /\ result' = Returned("parse_morphological_features", <<segment>>,
                                   ParseMorphologicalFeatures(segment))
             /\ UNCHANGED <<verses, verse_lookup, indexes, pc, snapshot, store, reader>>

NextApi ==
    \/ ApiSearch
    \/ ParseFeatures
    \/ ApiSearchRoots
    \/ ApiSearchMorphology
    \/ ApiSearchSyntax
    \/ ApiSearchPatternWord
    \/ ApiSearchVerbForms
    \/ SearchPatternWord

SpecApi == InitApi /\ [][NextApi]_vars

-----------------------------------------------------------------------------
(* Properties of the API specification.                                    *)

\* the limit of the call that produced result
LimitOf == result.args[Len(result.args)]

\* the operations whose return value reports total_count
CountingOps ==
    {"api_search_roots", "api_search_morphology", "api_search_syntax",
     "api_search_pattern_word", "search_pattern_word", "api_search_verb_forms"}

\* result is a {'results': ..., 'total_count': ...} value of a query operation
ReportsCount ==
    /\ result.op \in CountingOps
    /\ result.value.data.kind = "dict"

\* the operations whose total_count counts verses
VerseCountingOps ==
    {"api_search_roots", "api_search_morphology", "api_search_syntax"}

RECURSIVE SumMatchCount(_)
SumMatchCount(results) ==
    IF results = <<>> THEN 0
    ELSE Head(results).match_count + SumMatchCount(Tail(results))

\* C2 as stated: for every query operation, total_count is at least the
\* number of entries in results, and equal to it whenever total_count <= limit.
C2_CountEqualWithinLimit ==
    ReportsCount =>
        LET data == result.value.data
        IN /\ data.total_count >= Len(data.results)
           /\ data.total_count <= LimitOf => data.total_count = Len(data.results)

\* C2 amended: total_count is at least the number of entries in results for
\* every query operation; whenever total_count <= limit the two are equal for
\* search_root, search_morphology and search_syntax, whose total_count counts
\* verses; for search_pattern_word and the verb-form search, whose
\* total_count counts matches and matching segments, total_count is then the
\* sum of match_count over results.
C2_CountBoundsResults ==
    ReportsCount =>
        LET data == result.value.data
        IN /\ data.total_count >= Len(data.results)
           /\ (result.op \in VerseCountingOps /\ data.total_count <= LimitOf)
                  => data.total_count = Len(data.results)
           /\ (result.op \in CountingOps \ VerseCountingOps
                 /\ data.total_count <= LimitOf)
                  => data.total_count = SumMatchCount(data.results)

\* a morphology search that found two verses under a limit of two
C2_Witness ==
    /\ result.op = "api_search_morphology"
    /\ result.value.data.kind = "dict"
    /\ LimitOf = 2
    /\ result.value.data.total_count = 2
    /\ Len(result.value.data.results) = 2

\* the request names nothing the corpus holds: an absent root or pattern id,
\* an empty query string, a pattern spec without segments
NotFoundRequest ==
    \/ /\ result.op = "api_search_roots"
       /\ Strip(result.args[1]) \notin DOMAIN root_index
    \/ /\ result.op = "api_search_morphology"
       /\ IF Truthy(result.args[2])
          THEN \A i \in 1..Len(morph_pattern_index) :
                   morph_pattern_index[i].id # result.args[2]
          ELSE result.args[1] = <<>>
    \/ /\ result.op = "api_search_syntax"
       /\ IF Truthy(result.args[2])
          THEN \A i \in 1..Len(syntax_pattern_index) :
                   syntax_pattern_index[i].id # result.args[2]
          ELSE result.args[1] = <<>>
    \/ /\ result.op = "api_search_pattern_word"
       /\ result.args[1].mapping
       /\ ~result.args[1].has_segments \/ result.args[1].segments = <<>>

\* C3: a request through an API route whose root or pattern id is absent,
\* whose query string is empty or whose pattern spec has no segments
\* completes with an empty results list and count 0; no exception is raised.
C3_NotFoundIsEmptySuccess ==
    NotFoundRequest =>
        /\ result.value.response.kind = "response"
        /\ result.value.response.results = <<>>
        /\ result.value.response.count = 0

\* what does hold: an absent pattern id is an empty success
C3_AbsentPatternIdIsEmptySuccess ==
    (NotFoundRequest /\ result.op \in {"api_search_morphology", "api_search_syntax"}
       /\ Truthy(result.args[2])) =>
        /\ result.value.response.kind = "response"
        /\ result.value.response.results = <<>>
        /\ result.value.response.count = 0

\* C8: search_pattern_word with a spec whose segments are missing or empty,
\* or a spec that is not a mapping, returns no results for every corpus.
C8_NoSegmentsNoResults ==
    (/\ result.op = "search_pattern_word"
     /\ \/ ~result.args[1].mapping
        \/ ~result.args[1].has_segments
        \/ result.args[1].segments = <<>>) =>
        /\ result.value.data.kind = "list"
        /\ result.value.data.items = <<>>

\* an empty slot list with both affixes allowed, over a corpus with text
C8_Witness ==
    /\ result.op = "search_pattern_word"
    /\ result.args[1] = PatternSpec(<<>>, TRUE, TRUE)
    /\ \E i \in 1..Len(verses) : verses[i].text # <<>>
    /\ result.value.data = PyList(<<>>)

-----------------------------------------------------------------------------
(* The decoder specification: parse_morphological_features applied to the  *)
(* segments of a constructed corpus.                                        *)

MaxPieces == 2

\* the "|"-separated pieces a features string is made of
FeaturePieces ==
    { <<"(", "I", "V", ")">>,
      <<"(", "I", "I", ")">>,
      <<"I", "V">>,
      <<"A", "C", "T">>,
      <<"A", "c", "t">>,
      <<"P", "A", "S", "S">>,
      <<"p", "a", "s", "s">>,
      <<"3", "M", "S">>,
      <<"I", "M", "P", "F">>,
      <<"N", "O", "M">> }

RECURSIVE PieceLists(_)
PieceLists(n) ==
    IF n = 0 THEN {<<>>}
    ELSE {Append(ps, piece) : ps \in PieceLists(n - 1), piece \in FeaturePieces}

\* the features a segment may carry: absent, empty, or up to MaxPieces pieces
FeatureStrings ==
    {None} \cup {Join(<<"|">>, ps) : ps \in UNION {PieceLists(n) : n \in 0..MaxPieces}}

InitDecoder ==
    \E features \in FeatureStrings :
        Constructed(<<Verse(1, 1, <<>>,
                            <<Token(S_k, None,
                                    <<Segment(None, S_V, S_k, None, features)>>)>>)>>)

NextDecoder == ParseFeatures

SpecDecoder == InitDecoder /\ [][NextDecoder]_vars

\* result is what parse_morphological_features returned
Decoded == result.op = "parse_morphological_features"

\* the features string of the decoded segment
DecodedFeatures == result.args[1].features

FormIVToken == <<"(", "I", "V", ")">>

\* the positions at which a parenthesised numeral I-X stands in s
NumeralPositions(s) ==
    {p \in 0..Len(s) :
       \E x \in VerbFormNumerals : LiteralAt(s, p, <<"(">> \o x \o <<")">>)}

C12_VoiceDecoded ==
    Decoded =>
        LET upper == Upper(DecodedFeatures)
            act == Contains(upper, <<"A", "C", "T">>)
            pass == Contains(upper, <<"P", "A", "S", "S">>)
        IN /\ (act /\ ~pass) => result.value.voice = <<"a", "c", "t", "i", "v", "e">>
           /\ (pass /\ ~act) => result.value.voice = <<"p", "a", "s", "s", "i", "v", "e">>
           /\ (~act /\ ~pass) => result.value.voice = None

\* a lower-case passive marker beside another piece, decoded as passive
C12_Witness ==
    /\ Decoded
    /\ DecodedFeatures = <<"p", "a", "s", "s", "|", "3", "M", "S">>
    /\ result.value.voice = <<"p", "a", "s", "s", "i", "v", "e">>

-----------------------------------------------------------------------------
(* Frame of the query operations (API specification).                      *)

\* the query operations and the decoder, by the name result carries
QueryOps ==
    {"api_search", "api_search_roots", "api_search_morphology",
     "api_search_syntax", "api_search_pattern_word", "search_pattern_word",
     "api_search_verb_forms", "parse_morphological_features"}

\* C13: no query operation and no call of parse_morphological_features
\* changes the verse list, a verse, verse_lookup or any of the indexes; a
\* lookup of an unknown root adds no key to the root index.
C13_QueriesArePureReads ==
    [][result'.op \in QueryOps =>
         /\ verses' = verses
         /\ verse_lookup' = verse_lookup
         /\ indexes' = indexes]_vars

\* a root search for a root the index does not hold, over a non-empty index
C13_Witness ==
    /\ result.op = "api_search_roots"
    /\ Strip(result.args[1]) # <<>>
    /\ Strip(result.args[1]) \notin DOMAIN root_index
    /\ DOMAIN root_index # {}

-----------------------------------------------------------------------------
(* Shape of the values the query operations return (API specification).    *)

\* result holds the value a query operation of the CorpusManager returned
QueryReturned ==
    /\ result.op \in QueryOps \ {"parse_morphological_features"}
    /\ result.value.data.kind # "none"

\* every entry carries the matched verse and a match label
EntriesCarryVerseAndMatch(entries) ==
    \A i \in 1..Len(entries) : {"verse", "match"} \subseteq DOMAIN entries[i]

\* C14: every query operation, for every input including not-found and empty
\* inputs, returns a record with a results list and an integer total_count,
\* and every entry of results contains the matched verse and a match label.
C14_UniformResultShape ==
    QueryReturned =>
        /\ result.value.data.kind = "dict"
        /\ result.value.data.total_count \in Nat
        /\ EntriesCarryVerseAndMatch(result.value.data.results)

\* what does hold: a value that is a record has an integer total_count and
\* entries with verse and match; a list returned by a pattern-id lookup has
\* entries with verse and match
C14_RecordsAreWellShaped ==
    QueryReturned =>
        /\ result.value.data.kind = "dict" =>
              /\ result.value.data.total_count \in Nat
              /\ EntriesCarryVerseAndMatch(result.value.data.results)
        /\ (result.value.data.kind = "list" /\ result.op # "api_search") =>
              EntriesCarryVerseAndMatch(result.value.data.items)

-----------------------------------------------------------------------------
(* Keys of the indexes (index specification).                              *)

\* C15: after build_linguistic_indexes, no key of the root index, of the
\* morphological-pattern index or of the syntax n-gram index is the empty
\* string, and no root key has leading or trailing whitespace.
C15_NoEmptyKeys ==
    /\ \A root \in DOMAIN root_index : root # <<>> /\ Strip(root) = root
    /\ \A i \in 1..Len(morph_pattern_index) : morph_pattern_index[i].id # <<>>
    /\ \A i \in 1..Len(syntax_pattern_index) : syntax_pattern_index[i].id # <<>>

\* a build over a corpus that has a segment whose root is only whitespace, a
\* segment whose root is padded and a segment with no field set, with all
\* three indexes filled
C15_Witness ==
    /\ \E v \in CorpusVerses :
         \E seg \in SegmentsOf(v) : Truthy(seg.root) /\ TrimmedRoot(seg) = <<>>
    /\ \E v \in CorpusVerses :
         \E seg \in SegmentsOf(v) : TrimmedRoot(seg) # <<>> /\ TrimmedRoot(seg) # seg.root
    /\ \E v \in CorpusVerses :
         \E seg \in SegmentsOf(v) : ~Truthy(MakeMorphPatternKey(seg))
    /\ DOMAIN root_index # {}
    /\ morph_pattern_index # <<>>
    /\ syntax_pattern_index # <<>>

-----------------------------------------------------------------------------
(* Syntax free-text search (API specification).                            *)

\* the POS code of a token: that of its first segment, in lower case
FirstSegmentPos(token) ==
    IF token.segments = <<>> \/ token.segments[1].pos = None THEN <<>>
    ELSE Lower(token.segments[1].pos)

\* the verse has Len(codes) adjacent tokens whose POS codes are codes
HasAdjacentCodes(verse, codes) ==
    \E st \in 1..(Len(verse.tokens) - Len(codes) + 1) :
        \A j \in 1..Len(codes) : FirstSegmentPos(verse.tokens[st + j - 1]) = codes[j]

\* the POS codes a query names
QueryCodes(query) ==
    LET pieces == SplitPattern(query, <<>>)
    IN [k \in 1..Len(pieces) |-> Lower(pieces[k])]

\* result is a syntax free-text search whose query names at least one code
SyntaxSearched ==
    /\ result.op = "api_search_syntax"
    /\ ~Truthy(result.args[2])
    /\ QueryCodes(result.args[1]) # <<>>

\* C16: every verse that has k adjacent tokens whose POS codes equal the
\* query's codes q1..qk is counted in total_count exactly once, and is in
\* results unless limit earlier matching verses precede it.
C16_SyntaxSearchFindsAdjacent ==
    SyntaxSearched =>
        LET codes == QueryCodes(result.args[1])
            matching == {i \in 1..Len(verses) : HasAdjacentCodes(verses[i], codes)}
            data == result.value.data
        IN /\ data.kind = "dict"
           /\ data.total_count = Cardinality(matching)
           /\ \A i \in matching :
                 Cardinality({j \in matching : j < i}) < LimitOf
                    => \E n \in 1..Len(data.results) :
                          /\ data.results[n].index = i - 1
                          /\ data.results[n].verse = verses[i]
           /\ \A n \in 1..Len(data.results) :
                 data.results[n].index + 1 \in matching

\* the query "p pn" over a corpus with a P token followed by a PN token
C16_Witness ==
    /\ SyntaxSearched
    /\ result.args[1] = <<"p", " ", "p", "n">>
    /\ LimitOf >= 1
    /\ result.value.data.total_count >= 1
    /\ \E n \in 1..Len(result.value.data.results) :
          HasAdjacentCodes(result.value.data.results[n].verse, <<<<"p">>, <<"p", "n">>>>)

-----------------------------------------------------------------------------
(* Structural search counting (API specification).                         *)

\* result is a structural search that compiled a pattern
PatternSearched ==
    /\ result.op \in {"search_pattern_word", "api_search_pattern_word"}
    /\ result.value.data.kind = "dict"

\* the number of matches of regex in the text of verse i
MatchesIn(regex, i) == Len(FindIter(regex, verses[i].text, 0))

RECURSIVE SumOfMatches(_, _)
SumOfMatches(regex, n) ==
    IF n = 0 THEN 0 ELSE MatchesIn(regex, n) + SumOfMatches(regex, n - 1)

\* C17: search_pattern_word reports total_count equal to the sum over all
\* verses of the number of matches of the compiled pattern in the verse's
\* text, whatever the limit; results holds the first min(limit, number of
\* matching verses) matching verses in corpus order, each with match_count
\* equal to its own number of matches and with the compiled pattern.
C17_PatternCounting ==
    PatternSearched =>
        LET pattern_spec == result.args[1]
            regex == PatternSegmentsToRegex(pattern_spec.segments,
                                            pattern_spec.allow_prefix,
                                            pattern_spec.allow_suffix)
            matching == {i \in 1..Len(verses) : MatchesIn(regex, i) > 0}
            data == result.value.data
        IN /\ data.total_count = SumOfMatches(regex, Len(verses))
           /\ Len(data.results) =
                 IF LimitOf < Cardinality(matching) THEN LimitOf
                 ELSE Cardinality(matching)
           /\ \A n \in 1..Len(data.results) :
                 \E i \in matching :
                    /\ Cardinality({j \in matching : j < i}) = n - 1
                    /\ data.results[n].verse = verses[i]
                    /\ data.results[n].match_count = MatchesIn(regex, i)
                    /\ data.results[n].match_regex = regex

\* two matching verses, one of them with two matches, under a limit of one
C17_Witness ==
    /\ PatternSearched
    /\ LimitOf = 1
    /\ Len(result.value.data.results) = 1
    /\ result.value.data.total_count >= 3
    /\ result.value.data.results[1].match_count < result.value.data.total_count

-----------------------------------------------------------------------------
(* Verb-form search (API specification).                                   *)

VerbFormsSearched == result.op = "api_search_verb_forms"

\* the decoded value stands for every supplied filter
PassesFilters(segment, filters) ==
    LET parsed == ParseMorphologicalFeatures(segment)
    IN /\ Truthy(filters.form) =>
             parsed.verb_form = <<"F", "o", "r", "m", " ">> \o filters.form
       /\ \A name \in {"person", "number", "gender", "voice", "tense"} :
             Truthy(filters[name]) => parsed[name] = filters[name]

\* the kept segments of verse i, by token and segment position
KeptIn(i, filters) ==
    UNION {{<<t, g>> : g \in {h \in 1..Len(verses[i].tokens[t].segments) :
                                LET segment == verses[i].tokens[t].segments[h]
                                IN segment.pos = <<"V">> /\ PassesFilters(segment, filters)}} :
             t \in 1..Len(verses[i].tokens)}

RECURSIVE SumOfKept(_, _)
SumOfKept(filters, n) ==
    IF n = 0 THEN 0
    ELSE Cardinality(KeptIn(n, filters)) + SumOfKept(filters, n - 1)

\* C18: only segments with pos "V" that pass every supplied filter are kept;
\* the reported count is the number of kept segments over the whole corpus
\* whatever the limit; each returned verse carries at most 3 example matches
\* and a match_count equal to its number of kept segments; at most limit
\* verses are returned.
C18_VerbFormSearch ==
    VerbFormsSearched =>
        LET filters == result.args[1]
            data == result.value.data
            matching == {i \in 1..Len(verses) : KeptIn(i, filters) # {}}
        IN /\ data.total_count = SumOfKept(filters, Len(verses))
           /\ result.value.response.count = data.total_count
           /\ Len(data.results) <= LimitOf
           /\ \A n \in 1..Len(data.results) :
                 \E i \in matching :
                    /\ Cardinality({j \in matching : j < i}) = n - 1
                    /\ data.results[n].verse = verses[i]
                    /\ data.results[n].match_count = Cardinality(KeptIn(i, filters))
                    /\ Len(data.results[n].matches) <= 3
                    /\ \A m \in 1..Len(data.results[n].matches) :
                          /\ data.results[n].matches[m].parsed.pos = <<"V">>
                          /\ \E tg \in KeptIn(i, filters) :
                                data.results[n].matches[m].parsed =
                                    ParseMorphologicalFeatures(
                                        verses[i].tokens[tg[1]].segments[tg[2]])

\* a verse with four kept segments returned with three examples, and more
\* kept segments in the corpus than that verse holds
C18_Witness ==
    /\ VerbFormsSearched
    /\ Truthy(result.args[1].form)
    /\ LimitOf = 1
    /\ Len(result.value.data.results) = 1
    /\ result.value.data.results[1].match_count = 4
    /\ Len(result.value.data.results[1].matches) = 3
    /\ result.value.data.total_count > 4

-----------------------------------------------------------------------------
(* The writers: annotations, pronoun references, hypotheses, translations, *)
(* connections, tags and patterns.                                         *)

MaxRequests == 2

\* d.get(k), d.get(k, []), d[k] = v and del d[k] on a dict
DictGet(d, k) == IF k \in DOMAIN d THEN d[k] ELSE None
ListGet(d, k) == IF k \in DOMAIN d THEN d[k] ELSE <<>>
DictPut(d, k, v) == [f \in DOMAIN d \cup {k} |-> IF f = k THEN v ELSE d[f]]
DictDel(d, k) == [f \in DOMAIN d \ {k} |-> d[f]]

EmptyDict == <<>>

\* str(x) of a string or None
Str(x) == IF x = None THEN <<"N", "o", "n", "e">> ELSE x

\* str(n) of a natural number
RECURSIVE IntStr(_)
IntStr(n) ==
    LET digit == <<(<<"0", "1", "2", "3", "4", "5", "6", "7", "8", "9">>)[
                      (n % 10) + 1]>>
    IN IF n < 10 THEN digit ELSE IntStr(n \div 10) \o digit

S_supporting == <<"s", "u", "p", "p", "o", "r", "t", "i", "n", "g">>
S_unknown == <<"u", "n", "k", "n", "o", "w", "n">>
S_pronoun == <<"p", "r", "o", "n", "o", "u", "n">>
S_hypothesis == <<"h", "y", "p", "o", "t", "h", "e", "s", "i", "s">>
S_entity == <<"e", "n", "t", "i", "t", "y">>
S_pron == <<"p", "r", "o", "n">>

\* save_corpus: every verse is written to CORPUS_PATH unless READ_ONLY_MODE
SaveCorpusUnguarded(st, vs) ==
    [st EXCEPT !.corpus_file = vs, !.written = @ \cup {"corpus"}]

SaveCorpus(st, vs) ==
    IF ReadOnlyMode(st.environ) THEN st
    ELSE [st EXCEPT !.corpus_file = vs, !.written = @ \cup {"corpus"}]

\* save_tags: last_updated is stamped and self.tags is written to TAGS_PATH
\* unless READ_ONLY_MODE
SaveTags(st, now) ==
    IF ReadOnlyMode(st.environ) THEN st
    ELSE LET tags == DictPut(st.tags, "last_updated", now)
         IN [st EXCEPT !.tags = tags, !.tags_file = tags,
                       !.written = @ \cup {"tags"}]

\* get_verse: position of the first verse of that surah and ayah, 0 for None
VerseIndex(vs, surah, ayah) ==
    LET found == {i \in 1..Len(vs) : vs[i].surah = surah /\ vs[i].ayah = ayah}
    IN IF found = {} THEN 0 ELSE CHOOSE i \in found : \A j \in found : i <= j

\* the change is made to a copy of the verse dict kept in self.verses:
\* verse_lookup does not see it
VerseChangedInCopy(i, verse) ==
    /\ verses' = [verses EXCEPT ![i] = verse]
    /\ verse_lookup' = verse_lookup

\* a verse dict is changed in place: self.verses sees it, and verse_lookup
\* sees it when it holds the same object (the last verse of that key)
VerseChanged(i, verse) ==
    LET key == VerseKey(verses[i])
        same == \A j \in 1..Len(verses) : VerseKey(verses[j]) = key => j <= i
    IN /\ verses' = [verses EXCEPT ![i] = verse]
       /\ verse_lookup' = IF same THEN [verse_lookup EXCEPT ![key] = verse]
                          ELSE verse_lookup

\* _build_pronoun_id
BuildPronounId(token_id, segment_id) ==
    IF Truthy(segment_id) THEN Str(token_id) \o <<":">> \o Str(segment_id)
    ELSE Str(token_id)

\* detect_pronouns, the pronoun morphemes of one token
RECURSIVE PronounSegments(_, _)
PronounSegments(segments, token) ==
    IF segments = <<>> THEN <<>>
    ELSE LET seg == Head(segments)
             pos == Lower(OrElse(DictGet(seg, "pos"), <<>>))
             features == Lower(OrElse(DictGet(seg, "features"), <<>>))
             is_pronoun == pos = S_pron \/ Contains(features, S_pron)
             token_form == OrElse(DictGet(token, "form"), <<>>)
             found == [pronoun_id |-> BuildPronounId(DictGet(token, "id"),
                                                     DictGet(seg, "id")),
                       token_id |-> DictGet(token, "id"),
                       segment_id |-> DictGet(seg, "id"),
                       form |-> OrElse(DictGet(seg, "form"), token_form)]
         IN (IF is_pronoun THEN <<found>> ELSE <<>>)
                \o PronounSegments(Tail(segments), token)

\* detect_pronouns, with the fields of a pronoun that the writers read
RECURSIVE DetectPronouns(_)
DetectPronouns(tokens) ==
    IF tokens = <<>> THEN <<>>
    ELSE LET token == Head(tokens)
             token_form == OrElse(DictGet(token, "form"), <<>>)
             token_pos == Lower(OrElse(DictGet(token, "pos"), <<>>))
             whole == [pronoun_id |-> BuildPronounId(DictGet(token, "id"), None),
                       token_id |-> DictGet(token, "id"),
                       segment_id |-> None,
                       form |-> token_form]
         IN (IF token_pos = S_pron THEN <<whole>> ELSE <<>>)
                \o PronounSegments(token.segments, token)
                \o DetectPronouns(Tail(tokens))

\* pronouns.get(target_id, {}) on {p['pronoun_id']: p for p in detect_pronouns}
PronounMeta(verse, target_id) ==
    LET pronouns == DetectPronouns(verse.tokens)
        found == {i \in 1..Len(pronouns) : pronouns[i].pronoun_id = target_id}
    IN IF found = {} THEN EmptyDict
       ELSE pronouns[CHOOSE i \in found : \A j \in found : j <= i]

\* _normalize_evidence_entry
NormalizeEvidenceEntry(evidence, now) ==
    [id |-> OrElse(DictGet(evidence, "id"), <<"e", "v", "-">> \o now),
     type |-> Lower(OrElse(DictGet(evidence, "type"), S_supporting)),
     note |-> Strip(OrElse(DictGet(evidence, "note"), <<>>)),
     verse |-> OrElse(Strip(OrElse(DictGet(evidence, "verse"), <<>>)), None),
     created_at |-> now]

NormalizeEvidence(entries, now) ==
    [i \in 1..Len(entries) |-> NormalizeEvidenceEntry(entries[i], now)]

\* _normalize_hypothesis_entry
NormalizeHypothesisEntry(data, now) ==
    LET target_type == OrElse(DictGet(data, "target_type"),
                              OrElse(DictGet(data, "type"), S_unknown))
        target_id == OrElse(DictGet(data, "target_id"),
                            DictGet(data, "pronoun_id"))
        evidence_list ==
            IF ListGet(data, "evidence") # <<>>
            THEN NormalizeEvidence(data.evidence, now)
            ELSE IF Truthy(DictGet(data, "evidence_note"))
            THEN <<NormalizeEvidenceEntry(
                     [type |-> OrElse(DictGet(data, "evidence_type"),
                                      S_supporting),
                      note |-> DictGet(data, "evidence_note"),
                      verse |-> DictGet(data, "evidence_verse")], now)>>
            ELSE <<>>
    IN [id |-> OrElse(DictGet(data, "id"), <<"h", "y", "p", "-">> \o now),
        target_type |-> target_type,
        target_id |-> target_id,
        target_meta |-> ListGet(data, "target_meta"),
        hypothesis |-> OrElse(DictGet(data, "hypothesis"),
                              DictGet(data, "referent")),
        status |-> OrElse(DictGet(data, "status"), S_hypothesis),
        note |-> OrElse(DictGet(data, "note"), <<>>),
        evidence |-> evidence_list,
        created_at |-> now,
        updated_at |-> now]

\* add_pronoun_reference, lines 926-971: the reference entry
PronounReferenceEntry(verse, ref_data, now) ==
    LET target_id == DictGet(ref_data, "pronoun_id")
        pronoun_meta == PronounMeta(verse, target_id)
        evidence_note == Strip(OrElse(DictGet(ref_data, "evidence_note"), <<>>))
        evidence_type ==
            Lower(Strip(OrElse(DictGet(ref_data, "evidence_type"), <<>>)))
        evidence_list ==
            IF Truthy(evidence_note)
            THEN <<NormalizeEvidenceEntry(
                     [type |-> OrElse(evidence_type, S_supporting),
                      note |-> evidence_note,
                      verse |-> DictGet(ref_data, "evidence_verse")], now)>>
            ELSE NormalizeEvidence(ListGet(ref_data, "evidence"), now)
    IN [id |-> OrElse(DictGet(ref_data, "id"), <<"p", "r", "-">> \o now),
        pronoun_id |-> target_id,
        token_id |-> OrElse(DictGet(ref_data, "token_id"),
                            DictGet(pronoun_meta, "token_id")),
        segment_id |-> OrElse(DictGet(ref_data, "segment_id"),
                              DictGet(pronoun_meta, "segment_id")),
        pronoun_form |-> OrElse(DictGet(ref_data, "pronoun_form"),
                                DictGet(pronoun_meta, "form")),
        referent |-> DictGet(ref_data, "referent"),
        referent_type |-> OrElse(DictGet(ref_data, "referent_type"), S_entity),
        status |-> OrElse(DictGet(ref_data, "status"), S_hypothesis),
        note |-> OrElse(DictGet(ref_data, "note"),
                        DictGet(ref_data, "rationale")),
        evidence |-> evidence_list,
        created_at |-> now,
        updated_at |-> now]

\* add_pronoun_reference, lines 956-971: its twin in the hypothesis bucket
PronounHypothesisEntryFresh(entry, now) ==
    NormalizeHypothesisEntry(
        [target_type |-> S_pronoun,
         target_id |-> entry.pronoun_id,
         target_meta |-> [token_id |-> entry.token_id,
                          segment_id |-> entry.segment_id,
                          form |-> entry.pronoun_form],
         hypothesis |-> entry.referent,
         status |-> entry.status,
         note |-> entry.note,
         evidence |-> entry.evidence], now)

PronounHypothesisEntry(entry, now) ==
    NormalizeHypothesisEntry(
        [id |-> entry.id,
         target_type |-> S_pronoun,
         target_id |-> entry.pronoun_id,
         target_meta |-> [token_id |-> entry.token_id,
                          segment_id |-> entry.segment_id,
                          form |-> entry.pronoun_form],
         hypothesis |-> entry.referent,
         status |-> entry.status,
         note |-> entry.note,
         evidence |-> entry.evidence], now)

\* verse.setdefault(key, []).append(entry)
Appended(verse, key, entry) ==
    DictPut(verse, key, Append(ListGet(verse, key), entry))

\* for field in fields: if field in updates and updates[field] is not None
RECURSIVE ApplyUpdates(_, _, _)
ApplyUpdates(entry, updates, fields) ==
    IF fields = <<>> THEN entry
    ELSE LET field == Head(fields)
             set == field \in DOMAIN updates /\ updates[field] # None
         IN ApplyUpdates(IF set THEN DictPut(entry, field, updates[field])
                         ELSE entry,
                         updates, Tail(fields))

\* the body of the update loops, lines 897-903 and 988-997
UpdatedEntry(entry, updates, fields, now) ==
    LET changed == ApplyUpdates(entry, updates, fields)
        evidenced ==
            IF ListGet(updates, "evidence_entry") # <<>>
            THEN DictPut(changed, "evidence",
                         Append(ListGet(changed, "evidence"),
                                NormalizeEvidenceEntry(updates.evidence_entry,
                                                       now)))
            ELSE changed
    IN DictPut(evidenced, "updated_at", now)

\* position of the first entry with that id, 0 when there is none
FirstWithId(entries, id) ==
    LET found == {i \in 1..Len(entries) : DictGet(entries[i], "id") = id}
    IN IF found = {} THEN 0 ELSE CHOOSE i \in found : \A j \in found : i <= j

\* [e for e in entries if e.get('id') != id]
WithoutId(entries, id) ==
    LET Keep(e) == DictGet(e, "id") # id IN SelectSeq(entries, Keep)

\* one more request was served
Requested(st) == [st EXCEPT !.requests = @ + 1]

JsonResponse(status, body) == [status |-> status, body |-> body]
Success == [success |-> TRUE]

\* Inputs of the write specification.
S_x == <<"x">>
S_ok == <<"o", "k">>
S_r1 == <<"r", "1">>
S_r9 == <<"r", "9">>
S_t1 == <<"t", "1">>
S_t2 == <<"t", "2">>
S_s1 == <<"s", "1">>
S_s2 == <<"s", "2">>
S_PRON == <<"P", "R", "O", "N">>
S_note == <<" ", "n", " ">>

\* values of CODEX_READ_ONLY: not set, and set to 1, Yes, on
Environs == {None, <<"1">>, <<"Y", "e", "s">>, <<"o", "n">>}

Times == {<<"0", "7">>}

WriteLocations == {<<1, 1>>, <<1, 2>>}

\* one verse, two tokens: t1 with a noun segment s1 and a pronoun suffix s2,
\* t2 a whole-token pronoun; one pronoun reference r1 is already stored
WriteVerse ==
    [surah |-> 1, ayah |-> 1, text |-> <<"BA", "FATHA">>,
     tokens |->
        <<[id |-> S_t1, form |-> S_k, pos |-> None,
           segments |->
              <<[id |-> S_s1, form |-> S_k, type |-> S_stem, pos |-> S_N,
                 root |-> S_r, lemma |-> None, features |-> None],
                [id |-> S_s2, form |-> S_n, type |-> None, pos |-> S_PRON,
                 root |-> None, lemma |-> None, features |-> None]>>],
          [id |-> S_t2, form |-> S_x, pos |-> S_PRON, segments |-> <<>>]>>,
     pronoun_references |->
        <<[id |-> S_r1, pronoun_id |-> S_t2, referent |-> S_x,
           status |-> S_hypothesis]>>]

ReferencePayloads ==
    {[pronoun_id |-> S_t1 \o <<":">> \o S_s2, referent |-> S_x,
      status |-> S_hypothesis],
     [pronoun_id |-> <<>>, id |-> S_r9, evidence_note |-> S_note],
     [referent |-> S_x]}

HypothesisPayloads ==
    {[id |-> S_r1, target_type |-> <<"t">>, target_id |-> S_t1,
      hypothesis |-> S_x],
     [pronoun_id |-> S_t2, referent |-> S_x, evidence_note |-> S_note]}

EntryIds == {S_r1, S_r9}

UpdatePayloads ==
    {[status |-> S_ok, note |-> None],
     [evidence_entry |-> [note |-> S_note]]}

AnnotationPayloads == {[id |-> S_r1, note |-> S_x], [note |-> S_x]}

TagNames == {S_x}
TagPayloads == {[color |-> S_ok]}
PatternPayloads == {[id |-> S_r9, name |-> S_x], [name |-> S_x]}
PatternIds == {S_r9, <<"p", "a", "t", "t", "e", "r", "n", "-", "1">>}
ConnectionPayloads == {[internal |-> <<S_x>>, external |-> <<>>]}
TranslationPayloads == {[id |-> S_r1, text |-> S_x], [text |-> S_x]}
TranslationLists == {<<[id |-> S_r9, text |-> S_ok]>>}
TranslationIds == {S_r1, S_r9}

InitWrite ==
    \E environ \in Environs : ConstructedUnder(<<WriteVerse>>, environ, None)

\* add_pronoun_reference
AddPronounReference ==
    \E loc \in WriteLocations, ref_data \in ReferencePayloads, now \in Times :
        LET i == VerseIndex(verses, loc[1], loc[2])
            entry == PronounReferenceEntry(verses[i], ref_data, now)
            hyp_entry == PronounHypothesisEntry(entry, now)
            verse == Appended(Appended(verses[i], "pronoun_references", entry),
                              "structure_hypotheses", hyp_entry)
        IN /\ store.requests < MaxRequests
           /\ IF i = 0
              THEN /\ result' = Returned("add_pronoun_reference",
                                         <<loc, ref_data>>, NoData)
                   /\ store' = Requested(store)
                   /\ UNCHANGED <<verses, verse_lookup, reader>>
              ELSE /\ VerseChanged(i, verse)
                   /\ store' = SaveCorpus(Requested(store), verses')
                   /\ result' = Returned("add_pronoun_reference",
                                         <<loc, ref_data>>, hyp_entry)
           /\ UNCHANGED <<indexes, pc, snapshot, reader>>

\* update_pronoun_reference
UpdatePronounReference ==
    \E loc \in WriteLocations, ref_id \in EntryIds,
       updates \in UpdatePayloads, now \in Times :
        LET i == VerseIndex(verses, loc[1], loc[2])
            references == ListGet(verses[i], "pronoun_references")
            k == FirstWithId(references, ref_id)
            ref == UpdatedEntry(references[k], updates,
                                <<"referent", "referent_type", "status",
                                  "note">>, now)
            verse == [verses[i] EXCEPT
                         !.pronoun_references = [references EXCEPT ![k] = ref]]
        IN /\ store.requests < MaxRequests
           /\ IF i = 0 \/ k = 0
              THEN /\ result' = Returned("update_pronoun_reference",
                                         <<loc, ref_id, updates>>, NoData)
                   /\ store' = Requested(store)
                   /\ UNCHANGED <<verses, verse_lookup, reader>>
              ELSE /\ VerseChanged(i, verse)
                   /\ store' = SaveCorpus(Requested(store), verses')
                   /\ result' = Returned("update_pronoun_reference",
                                         <<loc, ref_id, updates>>, ref)
           /\ UNCHANGED <<indexes, pc, snapshot, reader>>

\* delete_pronoun_reference
DeletePronounReference ==
    \E loc \in WriteLocations, ref_id \in EntryIds :
        LET i == VerseIndex(verses, loc[1], loc[2])
            before == Len(ListGet(verses[i], "pronoun_references"))
            kept == WithoutId(ListGet(verses[i], "pronoun_references"), ref_id)
            after == Len(kept)
        IN /\ store.requests < MaxRequests
           /\ IF i = 0
              THEN /\ result' = Returned("delete_pronoun_reference",
                                         <<loc, ref_id>>, FALSE)
                   /\ store' = Requested(store)
                   /\ UNCHANGED <<verses, verse_lookup, reader>>
              ELSE /\ VerseChanged(i, DictPut(verses[i], "pronoun_references",
                                              kept))
                   /\ store' = IF after < before
                               THEN SaveCorpus(Requested(store), verses')
                               ELSE Requested(store)
                   /\ result' = Returned("delete_pronoun_reference",
                                         <<loc, ref_id>>, after < before)
           /\ UNCHANGED <<indexes, pc, snapshot, reader>>

\* add_structure_hypothesis
AddStructureHypothesis ==
    \E loc \in WriteLocations, hyp_data \in HypothesisPayloads, now \in Times :
        LET i == VerseIndex(verses, loc[1], loc[2])
            entry == NormalizeHypothesisEntry(hyp_data, now)
        IN /\ store.requests < MaxRequests
           /\ IF i = 0
              THEN /\ result' = Returned("add_structure_hypothesis",
                                         <<loc, hyp_data>>, NoData)
                   /\ store' = Requested(store)
                   /\ UNCHANGED <<verses, verse_lookup, reader>>
              ELSE /\ VerseChanged(i, Appended(verses[i],
                                               "structure_hypotheses", entry))
                   /\ store' = SaveCorpus(Requested(store), verses')
                   /\ result' = Returned("add_structure_hypothesis",
                                         <<loc, hyp_data>>, entry)
           /\ UNCHANGED <<indexes, pc, snapshot, reader>>

\* update_structure_hypothesis
UpdateStructureHypothesis ==
    \E loc \in WriteLocations, hyp_id \in EntryIds,
       updates \in UpdatePayloads, now \in Times :
        LET i == VerseIndex(verses, loc[1], loc[2])
            hypotheses == ListGet(verses[i], "structure_hypotheses")
            k == FirstWithId(hypotheses, hyp_id)
            hyp == UpdatedEntry(hypotheses[k], updates,
                                <<"hypothesis", "status", "note",
                                  "target_meta">>, now)
            verse == [verses[i] EXCEPT
                         !.structure_hypotheses = [hypotheses EXCEPT ![k] = hyp]]
        IN /\ store.requests < MaxRequests
           /\ IF i = 0 \/ k = 0
              THEN /\ result' = Returned("update_structure_hypothesis",
                                         <<loc, hyp_id, updates>>, NoData)
                   /\ store' = Requested(store)
                   /\ UNCHANGED <<verses, verse_lookup, reader>>
              ELSE /\ VerseChanged(i, verse)
                   /\ store' = SaveCorpus(Requested(store), verses')
                   /\ result' = Returned("update_structure_hypothesis",
                                         <<loc, hyp_id, updates>>, hyp)
           /\ UNCHANGED <<indexes, pc, snapshot, reader>>

\* delete_structure_hypothesis
DeleteStructureHypothesis ==
    \E loc \in WriteLocations, hyp_id \in EntryIds :
        LET i == VerseIndex(verses, loc[1], loc[2])
            before == Len(ListGet(verses[i], "structure_hypotheses"))
            kept == WithoutId(ListGet(verses[i], "structure_hypotheses"),
                              hyp_id)
            after == Len(kept)
        IN /\ store.requests < MaxRequests
           /\ IF i = 0
              THEN /\ result' = Returned("delete_structure_hypothesis",
                                         <<loc, hyp_id>>, FALSE)
                   /\ store' = Requested(store)
                   /\ UNCHANGED <<verses, verse_lookup, reader>>
              ELSE /\ VerseChanged(i, DictPut(verses[i], "structure_hypotheses",
                                              kept))
                   /\ store' = IF after < before
                               THEN SaveCorpus(Requested(store), verses')
                               ELSE Requested(store)
                   /\ result' = Returned("delete_structure_hypothesis",
                                         <<loc, hyp_id>>, after < before)
           /\ UNCHANGED <<indexes, pc, snapshot, reader>>

\* add_annotation
AddAnnotation ==
    \E loc \in WriteLocations, annotation \in AnnotationPayloads,
       now \in Times :
        LET i == VerseIndex(verses, loc[1], loc[2])
            identified ==
                IF "id" \notin DOMAIN annotation
                THEN DictPut(annotation, "id",
                             <<"a", "-">> \o now
                                 \o <<"-", "0", "0", "1", "-", "Y", "A">>)
                ELSE annotation
            created == IF "created_at" \notin DOMAIN identified
                       THEN DictPut(identified, "created_at", now)
                       ELSE identified
            stamped == DictPut(created, "updated_at", now)
        IN /\ store.requests < MaxRequests
           /\ IF i = 0
              THEN /\ result' = Returned("add_annotation",
                                         <<loc, annotation>>, FALSE)
                   /\ store' = Requested(store)
                   /\ UNCHANGED <<verses, verse_lookup, reader>>
              ELSE /\ VerseChanged(i, Appended(verses[i], "annotations",
                                               stamped))
                   /\ store' = SaveCorpus(Requested(store), verses')
                   /\ result' = Returned("add_annotation",
                                         <<loc, annotation>>, TRUE)
           /\ UNCHANGED <<indexes, pc, snapshot, reader>>

\* api_tag, PUT
ApiTagPut ==
    \E tag_name \in TagNames, tag_data \in TagPayloads, now \in Times :
        LET tags == DictPut(store.tags, "tags",
                            DictPut(ListGet(store.tags, "tags"), tag_name,
                                    tag_data))
        IN /\ store.requests < MaxRequests
           /\ store' = SaveTags([Requested(store) EXCEPT !.tags = tags], now)
           /\ result' = Returned("api_tag", <<tag_name, tag_data>>,
                                 JsonResponse(200, Success))
           /\ UNCHANGED <<verses, verse_lookup, indexes, pc, snapshot, reader>>

\* api_patterns, POST
ApiPatternsPost ==
    \E pattern \in PatternPayloads, now \in Times :
        LET patterns == ListGet(store.tags, "patterns")
            pattern_id ==
                IF "id" \in DOMAIN pattern THEN pattern.id
                ELSE <<"p", "a", "t", "t", "e", "r", "n", "-">>
                         \o IntStr(Cardinality(DOMAIN patterns) + 1)
            tags == DictPut(store.tags, "patterns",
                            DictPut(patterns, pattern_id, pattern))
        IN /\ store.requests < MaxRequests
           /\ store' = SaveTags([Requested(store) EXCEPT !.tags = tags], now)
           /\ result' = Returned("api_patterns", <<pattern>>,
                                 JsonResponse(200, [success |-> TRUE,
                                                    id |-> pattern_id]))
           /\ UNCHANGED <<verses, verse_lookup, indexes, pc, snapshot, reader>>

\* api_pattern, DELETE
ApiPatternDelete ==
    \E pattern_id \in PatternIds, now \in Times :
        LET patterns == ListGet(store.tags, "patterns")
            tags == DictPut(store.tags, "patterns",
                            DictDel(patterns, pattern_id))
        IN /\ store.requests < MaxRequests
           /\ IF pattern_id \notin DOMAIN patterns
              THEN /\ store' = Requested(store)
                   /\ result' = Returned("api_pattern", <<pattern_id>>,
                                         JsonResponse(404, [error |-> TRUE]))
              ELSE /\ store' = SaveTags([Requested(store) EXCEPT !.tags = tags],
                                        now)
                   /\ result' = Returned("api_pattern", <<pattern_id>>,
                                         JsonResponse(200, Success))
           /\ UNCHANGED <<verses, verse_lookup, indexes, pc, snapshot, reader>>

\* api_connections, POST
ApiConnectionsPost ==
    \E loc \in WriteLocations, connections \in ConnectionPayloads :
        LET i == VerseIndex(verses, loc[1], loc[2])
        IN /\ store.requests < MaxRequests
           /\ IF i = 0
              THEN /\ result' = Returned("api_connections",
                                         <<loc, connections>>,
                                         JsonResponse(404, [error |-> TRUE]))
                   /\ store' = Requested(store)
                   /\ UNCHANGED <<verses, verse_lookup, reader>>
              ELSE /\ VerseChanged(i, DictPut(verses[i], "connections",
                                              connections))
                   /\ store' = SaveCorpus(Requested(store), verses')
                   /\ result' = Returned("api_connections",
                                         <<loc, connections>>,
                                         JsonResponse(200, Success))
           /\ UNCHANGED <<indexes, pc, snapshot, reader>>

\* api_translations, POST
ApiTranslationsPost ==
    \E loc \in WriteLocations, translation \in TranslationPayloads,
       now \in Times :
        LET i == VerseIndex(verses, loc[1], loc[2])
            translations == ListGet(verses[i], "translations")
            identified ==
                IF "id" \notin DOMAIN translation
                THEN DictPut(translation, "id",
                             <<"t", "r", "-">>
                                 \o IntStr(Len(translations) + 1))
                ELSE translation
            stamped == DictPut(identified, "created_at", now)
        IN /\ store.requests < MaxRequests
           /\ IF i = 0
              THEN /\ result' = Returned("api_translations_post",
                                         <<loc, translation>>,
                                         JsonResponse(404, [error |-> TRUE]))
                   /\ store' = Requested(store)
                   /\ UNCHANGED <<verses, verse_lookup, reader>>
              ELSE /\ VerseChanged(i, Appended(verses[i], "translations",
                                               stamped))
                   /\ store' = SaveCorpus(Requested(store), verses')
                   /\ result' = Returned("api_translations_post",
                                         <<loc, translation>>,
                                         JsonResponse(200,
                                             [success |-> TRUE,
                                              translation |-> stamped]))
           /\ UNCHANGED <<indexes, pc, snapshot, reader>>

\* api_translations, PUT
ApiTranslationsPut ==
    \E loc \in WriteLocations, translations \in TranslationLists :
        LET i == VerseIndex(verses, loc[1], loc[2])
        IN /\ store.requests < MaxRequests
           /\ IF i = 0
              THEN /\ result' = Returned("api_translations_put",
                                         <<loc, translations>>,
                                         JsonResponse(404, [error |-> TRUE]))
                   /\ store' = Requested(store)
                   /\ UNCHANGED <<verses, verse_lookup, reader>>
              ELSE /\ VerseChanged(i, DictPut(verses[i], "translations",
                                              translations))
                   /\ store' = SaveCorpus(Requested(store), verses')
                   /\ result' = Returned("api_translations_put",
                                         <<loc, translations>>,
                                         JsonResponse(200, Success))
           /\ UNCHANGED <<indexes, pc, snapshot, reader>>

\* api_translation_delete
ApiTranslationDelete ==
    \E loc \in WriteLocations, translation_id \in TranslationIds :
        LET i == VerseIndex(verses, loc[1], loc[2])
            kept == WithoutId(ListGet(verses[i], "translations"),
                              translation_id)
        IN /\ store.requests < MaxRequests
           /\ IF i = 0
              THEN /\ result' = Returned("api_translation_delete",
                                         <<loc, translation_id>>,
                                         JsonResponse(404, [error |-> TRUE]))
                   /\ store' = Requested(store)
                   /\ UNCHANGED <<verses, verse_lookup, reader>>
              ELSE /\ VerseChanged(i, DictPut(verses[i], "translations", kept))
                   /\ store' = SaveCorpus(Requested(store), verses')
                   /\ result' = Returned("api_translation_delete",
                                         <<loc, translation_id>>,
                                         JsonResponse(200, Success))
           /\ UNCHANGED <<indexes, pc, snapshot, reader>>

NextWrite ==
    \/ AddPronounReference
    \/ UpdatePronounReference
    \/ DeletePronounReference
    \/ AddStructureHypothesis
    \/ UpdateStructureHypothesis
    \/ DeleteStructureHypothesis
    \/ AddAnnotation
    \/ ApiTagPut
    \/ ApiPatternsPost
    \/ ApiPatternDelete
    \/ ApiConnectionsPost
    \/ ApiTranslationsPost
    \/ ApiTranslationsPut
    \/ ApiTranslationDelete

SpecWrite == InitWrite /\ [][NextWrite]_vars

-----------------------------------------------------------------------------
(* Read-only mode.                                                         *)

\* the two data files as they are on disk
Files == <<store.corpus_file, store.tags_file, store.written>>

\* C19: once READ_ONLY_MODE holds, that is once CODEX_READ_ONLY is 1, true or
\* yes in any letter case, no request of the writers writes the corpus file
\* or the tags file: both keep their content and neither is ever opened for
\* writing
C19_ReadOnlyNeverWrites ==
    [][READ_ONLY_MODE => Files' = Files /\ store'.written = {}]_vars

\* C19: a read-only process has served requests that changed a verse and the
\* tag registry in memory, and nothing was written
C19_Witness ==
    /\ READ_ONLY_MODE
    /\ store.environ = <<"Y", "e", "s">>
    /\ store.requests >= 2
    /\ "tags" \in DOMAIN store.tags
    /\ verses # store.corpus_file
    /\ store.written = {}

\* C19 as stated: whenever CODEX_READ_ONLY is set, whatever its value, neither
\* file is ever written
C19_SetNeverWrites == store.environ # None => store.written = {}

-----------------------------------------------------------------------------
(* add_pronoun_reference.                                                  *)

\* entries is before with exactly one entry appended
OneAppended(before, entries) ==
    /\ Len(entries) = Len(before) + 1
    /\ SubSeq(entries, 1, Len(before)) = before

\* what add_pronoun_reference did to verse i for the request ref_data, with
\* target the target_id the hypothesis is to carry
PronounReferenceAdded(i, target) ==
    LET references == ListGet(verses'[i], "pronoun_references")
        hypotheses == ListGet(verses'[i], "structure_hypotheses")
        hyp_entry == hypotheses[Len(hypotheses)]
    IN /\ Len(verses') = Len(verses)
       /\ \A j \in 1..Len(verses) : j # i => verses'[j] = verses[j]
       /\ OneAppended(ListGet(verses[i], "pronoun_references"), references)
       /\ OneAppended(ListGet(verses[i], "structure_hypotheses"), hypotheses)
       /\ hyp_entry.target_type = S_pronoun
       /\ hyp_entry.target_id = target
       /\ hyp_entry.id = references[Len(references)].id
       /\ result'.value = hyp_entry

\* add_pronoun_reference on a verse that does not exist
NothingAdded ==
    /\ result'.value = NoData
    /\ verses' = verses
    /\ verse_lookup' = verse_lookup
    /\ Files' = Files
    /\ store'.tags = store.tags

\* C20: add_pronoun_reference on an existing verse appends exactly one entry
\* to its pronoun_references and one to its structure_hypotheses; the latter
\* has target_type 'pronoun', the id of the reference, and as target_id the
\* given pronoun_id when that is a non-empty string and None when it is
\* empty or missing; on a verse that does not exist it returns None and
\* changes nothing
C20_UnifiedHypothesis ==
    [][result'.op = "add_pronoun_reference" =>
         LET loc == result'.args[1]
             given == DictGet(result'.args[2], "pronoun_id")
             i == VerseIndex(verses, loc[1], loc[2])
         IN IF i = 0 THEN NothingAdded
            ELSE PronounReferenceAdded(i, IF Truthy(given) THEN given
                                          ELSE None)]_vars

\* C20: a reference for the pronoun t1:s2 was added without an id of its own,
\* and the hypothesis returned carries that pronoun and a generated id
C20_Witness ==
    /\ result.op = "add_pronoun_reference"
    /\ result.value # NoData
    /\ "id" \notin DOMAIN result.args[2]
    /\ result.value.target_id = S_t1 \o <<":">> \o S_s2
    /\ result.value.target_meta.token_id = S_t1
    /\ result.value.id = <<"p", "r", "-", "0", "7">>

\* C20 as stated: the hypothesis always carries the given pronoun_id as its
\* target_id
C20_TargetIsGivenPronounId ==
    [][result'.op = "add_pronoun_reference" =>
         LET loc == result'.args[1]
             given == DictGet(result'.args[2], "pronoun_id")
             i == VerseIndex(verses, loc[1], loc[2])
         IN IF i = 0 THEN NothingAdded
            ELSE PronounReferenceAdded(i, given)]_vars

-----------------------------------------------------------------------------
(* QuranReader navigation (scripts/quran_reader.py).                       *)

\* goto: position of the first verse of that surah and ayah, counted from 0,
\* or -1 when the loop ends without a match
GotoIndex(vs, surah, ayah) == VerseIndex(vs, surah, ayah) - 1

\* next_verse with the last index allowed to move as well
NextIndexPastEnd(vs, current_index) ==
    IF current_index <= Len(vs) - 1 THEN current_index + 1 ELSE current_index

\* next_verse
NextIndex(vs, current_index) ==
    IF current_index < Len(vs) - 1 THEN current_index + 1 ELSE current_index

\* prev_verse
PrevIndex(current_index) ==
    IF current_index > 0 THEN current_index - 1 ELSE current_index

ReaderContents == {Content(<<"BA">>, <<>>), Content(<<"BA", "FATHA">>, <<>>)}

InitReader ==
    \E corpus \in Corpora(Locations, ReaderContents) : Constructed(corpus)

\* every reader call records the index it was called at
Goto ==
    \E loc \in Locations :
        LET i == GotoIndex(reader.verses, loc[1], loc[2])
        IN /\ reader' = IF i >= 0 THEN [reader EXCEPT !.current_index = i]
                        ELSE reader
           /\ result' = Returned("goto", <<reader.current_index, loc>>, i >= 0)
           /\ UNCHANGED <<verses, verse_lookup, indexes, pc, snapshot, store>>

NextVerse ==
    /\ reader' = [reader EXCEPT
                     !.current_index = NextIndex(reader.verses, @)]
    /\ result' = Returned("next_verse", <<reader.current_index>>, None)
    /\ UNCHANGED <<verses, verse_lookup, indexes, pc, snapshot, store>>

PrevVerse ==
    /\ reader' = [reader EXCEPT !.current_index = PrevIndex(@)]
    /\ result' = Returned("prev_verse", <<reader.current_index>>, None)
    /\ UNCHANGED <<verses, verse_lookup, indexes, pc, snapshot, store>>

NextReader == Goto \/ NextVerse \/ PrevVerse

SpecReader == InitReader /\ [][NextReader]_vars

\* the largest index a reader of vs can stand at
LastIndex(vs) == IF Len(vs) = 0 THEN 0 ELSE Len(vs) - 1

\* the verse at the reader's index is the verse (surah, ayah)
CurrentIs(r, loc) ==
    /\ r.current_index + 1 \in 1..Len(r.verses)
    /\ VerseKey(r.verses[r.current_index + 1]) = loc

\* goto did what its return value says
GotoKept ==
    result'.op = "goto" =>
        IF result'.value THEN CurrentIs(reader', result'.args[2])
        ELSE reader' = reader

\* C21: after any sequence of goto, next_verse and prev_verse the index is
\* within [0, number of verses - 1] on a corpus that has verses and 0 on an
\* empty one; a successful goto(s, a) makes (s, a) the current verse and a
\* failed one leaves the position unchanged; next_verse followed by
\* prev_verse returns to the index it started from, except from the last
\* verse, where next_verse does not move and prev_verse steps one back
C21_ReaderNavigation ==
    [][/\ reader'.current_index \in 0..LastIndex(reader'.verses)
       /\ reader'.verses = reader.verses
       /\ GotoKept
       /\ (result.op = "next_verse" /\ result'.op = "prev_verse") =>
             reader'.current_index =
                 IF result.args[1] < Len(reader.verses) - 1
                 THEN result.args[1]
                 ELSE PrevIndex(result.args[1])]_vars

\* C21: a reader of two verses stepped back from the last verse and stands
\* on (1, 2), the verse before it
C21_Witness ==
    /\ Len(reader.verses) >= 2
    /\ result.op = "prev_verse"
    /\ result.args[1] = Len(reader.verses) - 1
    /\ result.args[1] = reader.current_index + 1
    /\ CurrentIs(reader, <<1, 2>>)

\* C21 as stated: the index is always within [0, number of verses - 1], and
\* next_verse followed by prev_verse always returns to where it started
C21_AlwaysInRangeAndBack ==
    [][/\ reader'.current_index \in 0..(Len(reader'.verses) - 1)
       /\ GotoKept
       /\ (result.op = "next_verse" /\ result'.op = "prev_verse") =>
             reader'.current_index = result.args[1]]_vars

-----------------------------------------------------------------------------
(* Coverage of the syntax n-gram index and of the morphological-pattern    *)
(* index (index specification).                                            *)

\* the POS code a token stands for: its first segment's when it has
\* segments, its own otherwise
TokenPosCode(token) ==
    IF token.segments # <<>> THEN token.segments[1].pos ELSE token.pos

\* the POS sequence of a verse: the codes of its tokens, tokens without a
\* code skipped, lowercased
DerivedPosSequence(verse) ==
    LET Coded(token) == Truthy(TokenPosCode(token))
        coded == SelectSeq(verse.tokens, Coded)
    IN [i \in 1..Len(coded) |-> Lower(TokenPosCode(coded[i]))]

\* the contiguous windows of seq whose length is in lengths
WindowSet(seq, lengths) ==
    UNION {{SubSeq(seq, a, a + n - 1) : a \in 1..(Len(seq) - n + 1)} :
             n \in lengths}

\* the locations the syntax index holds under key
SyntaxLocations(key) ==
    UNION {syntax_pattern_index[i].verses :
             i \in {j \in 1..Len(syntax_pattern_index) :
                      syntax_pattern_index[j].id = key}}

ArrowLabel(window) ==
    Join(<<" ", "ARROW", " ">>, [i \in 1..Len(window) |-> Upper(window[i])])

\* C22: for every verse and every key k, the syntax n-gram index holds the
\* verse's location under k exactly when k is the '|'-join of a contiguous
\* window of length 2 or 3 of the verse's derived POS sequence; windows of
\* length 1 and of length above 3 are not indexed; every label is the
\* uppercased codes of such a window joined by an arrow
C22_SyntaxIndexCoverage ==
    /\ \A v \in CorpusVerses :
         LET seq == DerivedPosSequence(v)
             indexed == {Join(<<"|">>, w) : w \in WindowSet(seq, {2, 3})}
             others == {Join(<<"|">>, w) : w \in WindowSet(seq, 1..Len(seq))}
             keys == {syntax_pattern_index[i].id :
                        i \in 1..Len(syntax_pattern_index)}
         IN \A k \in others \cup keys :
               VerseKey(v) \in SyntaxLocations(k) <=> k \in indexed
    /\ \A i \in 1..Len(syntax_pattern_index) :
         LET entry == syntax_pattern_index[i]
         IN /\ entry.verses # {}
            /\ entry.verses \subseteq CorpusKeys
            /\ \E v \in CorpusVerses :
                 \E w \in WindowSet(DerivedPosSequence(v), {2, 3}) :
                    /\ entry.id = Join(<<"|">>, w)
                    /\ entry.label = ArrowLabel(w)

\* C22: the index was built over a verse with four POS codes, with a token
\* skipped for want of a code and a token that gives its own code
C22_Witness ==
    /\ result.op = "build_linguistic_indexes"
    /\ \E v \in CorpusVerses :
         /\ Len(DerivedPosSequence(v)) >= 4
         /\ Len(DerivedPosSequence(v)) < Len(v.tokens)
         /\ \E t \in 1..Len(v.tokens) :
               v.tokens[t].segments = <<>> /\ Truthy(v.tokens[t].pos)
         /\ \E i \in 1..Len(syntax_pattern_index) :
               /\ VerseKey(v) \in syntax_pattern_index[i].verses
               /\ syntax_pattern_index[i].label
                     = <<"P", " ", "ARROW", " ", "N", " ", "ARROW", " ", "V">>

\* the four fields of a segment that make its pattern, lowercased, missing
\* ones empty
PatternFields(seg) ==
    <<Lower(IF seg.type = None THEN <<>> ELSE seg.type),
      Lower(IF seg.pos = None THEN <<>> ELSE seg.pos),
      Lower(IF seg.lemma = None THEN <<>> ELSE seg.lemma),
      Lower(IF seg.features = None THEN <<>> ELSE seg.features)>>

Contributes(seg) == \E i \in 1..4 : PatternFields(seg)[i] # <<>>

\* the locations of the verses that have a contributing segment of that key
LocationsWithPattern(key) ==
    {VerseKey(v) : v \in
       {w \in CorpusVerses :
          \E seg \in SegmentsOf(w) :
             Contributes(seg) /\ Join(<<"|">>, PatternFields(seg)) = key}}

\* C23: a segment contributes to the morphological-pattern index iff one of
\* its type, pos, lemma, features is non-empty; its key is the '|'-join of
\* the four lowercased fields; each key holds the locations of the verses
\* having such a segment, and the count exposed for it is the number of
\* those locations; segments with four empty fields contribute no key
C23_MorphPatternIndex ==
    /\ \A v \in CorpusVerses : \A seg \in SegmentsOf(v) :
         Contributes(seg) <=>
            \E i \in 1..Len(morph_pattern_index) :
               /\ morph_pattern_index[i].id = Join(<<"|">>, PatternFields(seg))
               /\ VerseKey(v) \in morph_pattern_index[i].verses
    /\ \A i \in 1..Len(morph_pattern_index) :
         /\ morph_pattern_index[i].verses
               = LocationsWithPattern(morph_pattern_index[i].id)
         /\ morph_pattern_index[i].verses # {}
         /\ \A j \in 1..Len(morph_pattern_index) :
               morph_pattern_index[j].id = morph_pattern_index[i].id => j = i
    /\ Len(morph_patterns) = Len(morph_pattern_index)
    /\ \A i \in 1..Len(morph_pattern_index) :
         \E j \in 1..Len(morph_patterns) :
            /\ morph_patterns[j].id = morph_pattern_index[i].id
            /\ morph_patterns[j].count
                  = Cardinality(LocationsWithPattern(morph_patterns[j].id))

\* C23: the index was built over a verse in which one pattern occurs in two
\* tokens and is counted once, and which has a segment with no field set
C23_Witness ==
    /\ result.op = "build_linguistic_indexes"
    /\ \E v \in CorpusVerses :
         /\ \E seg \in SegmentsOf(v) : ~Contributes(seg)
         /\ \E t, u \in 1..Len(v.tokens) :
               /\ t # u
               /\ \E a \in 1..Len(v.tokens[t].segments),
                     b \in 1..Len(v.tokens[u].segments) :
                     /\ Contributes(v.tokens[t].segments[a])
                     /\ PatternFields(v.tokens[t].segments[a])
                           = PatternFields(v.tokens[u].segments[b])
                     /\ \E j \in 1..Len(morph_patterns) :
                           /\ morph_patterns[j].id
                                 = Join(<<"|">>,
                                        PatternFields(v.tokens[t].segments[a]))
                           /\ morph_patterns[j].count = 1

-----------------------------------------------------------------------------
(* Diacritic tolerance of the compiled pattern (pattern specification).    *)

\* text[a + 1 .. b], positions counted from 0
Between(text, a, b) == SubSeq(text, a + 1, b)

AllOf(str, Is(_)) == \A i \in 1..Len(str) : Is(str[i])

\* the diacritics a slot lists, one after the other
Listed(slot) ==
    IF slot.diacritics = None THEN <<>>
    ELSE Join(<<>>, SelectSeq(slot.diacritics, Truthy))

\* the ends of the readings of one slot from position p: its letter (any
\* Arabic letter when it names none), the listed diacritics unless
\* any_diacritics is set, a run of combining marks, a run of elongation marks
SlotEnds(slot, text, p) ==
    {q \in p..Len(text) :
       \E a \in p..q : \E b \in a..q : \E c \in b..q :
          /\ IF slot.any_letter \/ ~Truthy(slot.letter)
             THEN a = p + 1 /\ IsArabicLetter(text[a])
             ELSE Between(text, p, a) = slot.letter
          /\ Between(text, a, b)
                = (IF slot.any_diacritics THEN <<>> ELSE Listed(slot))
          /\ AllOf(Between(text, b, c), IsDiacritic)
          /\ AllOf(Between(text, c, q), IsTatweel)}

\* the ends of the readings of the slots one after the other from p
RECURSIVE BodyEnds(_, _, _)
BodyEnds(slots, text, p) ==
    IF slots = <<>> THEN {p}
    ELSE UNION {BodyEnds(Tail(slots), text, q) :
                  q \in SlotEnds(Head(slots), text, p)}

\* a match of the pattern can start at p
Matchable(pattern_spec, text, p) ==
    /\ pattern_spec.allow_prefix \/ NotAfterNonSpace(text, p)
    /\ \E q \in BodyEnds(pattern_spec.segments, text, p) :
          pattern_spec.allow_suffix \/ NotBeforeNonSpace(text, q)

\* C24: every match of the compiled pattern is a reading of its slots one
\* after the other with nothing between them, a slot being its letter, then
\* the listed diacritics in their order (none required when any_diacritics is
\* set), then any run of combining marks, then any run of elongation marks;
\* and wherever such a reading can start outside an earlier match, a match
\* starts
C24_DiacriticTolerance ==
    result.op = "finditer" =>
        LET pattern_spec == result.args[1]
            text == result.args[2]
            matches == result.value.matches
        IN /\ \A m \in 1..Len(matches) :
                 matches[m].end
                    \in BodyEnds(pattern_spec.segments, text, matches[m].start)
           /\ \A p \in 0..Len(text) :
                 (/\ Matchable(pattern_spec, text, p)
                  /\ \A m \in 1..Len(matches) :
                        ~(matches[m].start < p /\ p < matches[m].end))
                    => \E m \in 1..Len(matches) : matches[m].start = p

\* C24: a slot for any letter took a letter with a mark and an elongation
\* mark, and the slot after it took its letter bare although it lists a mark
\* and has any_diacritics set
C24_Witness ==
    /\ result.op = "finditer"
    /\ result.args[1].segments = <<SlotAny, SlotBaAnyMarks>>
    /\ result.args[2] = <<"BA", "FATHA", "TATWEEL", "BA">>
    /\ result.value.matches = <<[start |-> 0, end |-> 4]>>

-----------------------------------------------------------------------------
(* The grammar specification: parse_morphological_features applied to      *)
(* segments whose features string is an optional person-gender-number      *)
(* code followed by "|"-separated tags, under a known or an unknown POS.   *)

\* the codes of {2,3} x {M,F} x {S,D,P}
AgreementCodes ==
    {<<p, g, n>> : p \in {"2", "3"}, g \in {"M", "F"}, n \in {"S", "D", "P"}}

\* voice, tense, mood and verb-form tags
AgreementTags ==
    { <<"A", "C", "T">>, <<"P", "A", "S", "S">>, <<"P", "E", "R", "F">>, <<"I", "M", "P", "F">>, <<"I", "M", "P", "V">>,
      <<"M", "O", "O", "D", ":", "I", "N", "D">>, <<"M", "O", "O", "D", ":", "J", "U", "S">>, <<"(", "I", "V", ")">> }

\* case tags, parenthesised tokens that are no numeral I-X, a tag no rule reads
OtherTags ==
    { <<"N", "O", "M">>, <<"A", "C", "C">>, <<"G", "E", "N">>, <<"(", "I", "I", "V", ")">>, <<"(", "X", "I", ")">>, <<"S", "T", "E", "M">> }

GrammarTags == AgreementTags \cup OtherTags

RECURSIVE TagLists(_, _)
TagLists(n, tags) ==
    IF n = 0 THEN {<<>>}
    ELSE {Append(ts, tag) : ts \in TagLists(n - 1, tags), tag \in tags}

TagListsUpTo(n, tags) == UNION {TagLists(k, tags) : k \in 0..n}

\* absent, empty, up to MaxPieces tags, or a code followed by up to MaxPieces
\* voice, tense, mood and verb-form tags
GrammarStrings ==
    {None}
    \cup {Join(<<"|">>, ts) : ts \in TagListsUpTo(MaxPieces, GrammarTags)}
    \cup {Join(<<"|">>, <<code>> \o ts) :
            code \in AgreementCodes, ts \in TagListsUpTo(MaxPieces, AgreementTags)}

\* a code of pos_map and one it does not hold
GrammarPosCodes == {S_V, <<"X", "Y">>}

InitGrammar ==
    \E features \in GrammarStrings, pos \in GrammarPosCodes :
        Constructed(<<Verse(1, 1, <<>>,
                            <<Token(S_k, None,
                                    <<Segment(None, pos, S_k, None, features)>>)>>)>>)

NextGrammar == ParseFeatures

SpecGrammar == InitGrammar /\ [][NextGrammar]_vars

\* the value standing with the first tag of table that s contains, or None
FirstMatch(s, table) ==
    LET hits == {i \in 1..Len(table) : Contains(s, table[i][1])}
    IN IF hits = {} THEN None
       ELSE table[CHOOSE i \in hits : \A o \in hits : i <= o][2]

CasePriority ==
    << <<<<"N", "O", "M">>, <<"n", "o", "m", "i", "n", "a", "t", "i", "v", "e">>>>,
       <<<<"A", "C", "C">>, <<"a", "c", "c", "u", "s", "a", "t", "i", "v", "e">>>>,
       <<<<"G", "E", "N">>, <<"g", "e", "n", "i", "t", "i", "v", "e">>>> >>

TensePriority ==
    << <<<<"P", "E", "R", "F">>, <<"p", "e", "r", "f", "e", "c", "t">>>>,
       <<<<"I", "M", "P", "F">>, <<"i", "m", "p", "e", "r", "f", "e", "c", "t">>>>,
       <<<<"I", "M", "P", "V">>, <<"i", "m", "p", "e", "r", "a", "t", "i", "v", "e">>>> >>

AspectOf(tense) ==
    IF tense = <<"p", "e", "r", "f", "e", "c", "t">> THEN <<"p", "e", "r", "f", "e", "c", "t", "i", "v", "e">>
    ELSE IF tense = <<"i", "m", "p", "e", "r", "f", "e", "c", "t">> THEN <<"i", "m", "p", "e", "r", "f", "e", "c", "t", "i", "v", "e">>
    ELSE None

\* C25: for every non-empty features string, case is the value of the first
\* of NOM, ACC, GEN that the upper-cased string contains (so a string with
\* both NOM and ACC is nominative) and tense the value of the first of PERF,
\* IMPF, IMPV, each a single value or absent; aspect is perfective with
\* perfect, imperfective with imperfect and absent with imperative or no tense.
C25_CaseTensePriority ==
    (Decoded /\ Truthy(DecodedFeatures)) =>
        /\ result.value.case = FirstMatch(Upper(DecodedFeatures), CasePriority)
        /\ result.value.tense = FirstMatch(Upper(DecodedFeatures), TensePriority)
        /\ result.value.aspect = AspectOf(result.value.tense)
        /\ (/\ Contains(DecodedFeatures, <<"N", "O", "M">>)
            /\ Contains(DecodedFeatures, <<"A", "C", "C">>))
           => result.value.case = <<"n", "o", "m", "i", "n", "a", "t", "i", "v", "e">>

\* "ACC|NOM" decoded nominative, "IMPV" alone would be imperative without aspect
C25_Witness ==
    /\ Decoded
    /\ DecodedFeatures = <<"A", "C", "C", "|", "N", "O", "M">>
    /\ result.value.case = <<"n", "o", "m", "i", "n", "a", "t", "i", "v", "e">>
    /\ result.value.tense = None
    /\ result.value.aspect = None

\* the attributes parse_morphological_features decodes from the features string
GrammarAttributes ==
    {"verb_form", "person", "number", "gender", "voice", "mood", "case",
     "tense", "aspect"}

PersonMarkers ==
    {<<p, n>> : p \in {"1", "2", "3"}, n \in {"P"}}
    \cup {<<"1", "S">>, <<"1", "D">>}
    \cup AgreementCodes

GenderNumberMarkers(g, n) == {<<h, m>> : h \in g, m \in n}

\* the features string f holds a marker that the rule of attribute a reads
RuleFires(a, f) ==
    CASE a = "verb_form" -> NumeralPositions(f) # {}
      [] a = "person" -> AnyIn(f, PersonMarkers)
      [] a = "number" ->
            \/ AnyIn(f, {<<"S", "|">>, <<"D", "|">>, <<"P", "|">>})
            \/ AnyIn(f, GenderNumberMarkers({"M", "F"}, {"S", "D", "P"}))
            \/ f[Len(f)] \in {"S", "D", "P"}
      [] a = "gender" ->
            \/ AnyIn(f, {<<"|", "M">>, <<"|", "F">>})
            \/ AnyIn(f, GenderNumberMarkers({"M", "F"}, {"S", "D", "P"}))
      [] a = "voice" -> AnyIn(Upper(f), {<<"A", "C", "T">>, <<"P", "A", "S", "S">>})
      [] a = "mood" ->
            \/ AnyIn(f, {<<"M", "O", "O", "D", ":", "I", "N", "D">>, <<"M", "O", "O", "D", ":", "S", "J">>, <<"M", "O", "O", "D", ":", "J", "U", "S">>})
            \/ AnyIn(Upper(f), {<<"S", "U", "B", "J">>, <<"J", "U", "S">>})
      [] a = "case" -> AnyIn(Upper(f), {<<"N", "O", "M">>, <<"A", "C", "C">>, <<"G", "E", "N">>})
      [] a = "tense" -> AnyIn(Upper(f), {<<"P", "E", "R", "F">>, <<"I", "M", "P", "F">>, <<"I", "M", "P", "V">>})
      [] a = "aspect" -> AnyIn(Upper(f), {<<"P", "E", "R", "F">>, <<"I", "M", "P", "F">>})

KnownPosCodes == {e[1] : e \in pos_map}

\* C26: an attribute whose rule finds no marker is absent (None), so a
\* segment with missing or empty features, and a features string that fires
\* no rule, decode to nine absent attributes; a POS code that pos_map does
\* not hold is returned unchanged as pos_full.
C26_AbsentByDefault ==
    Decoded =>
        /\ \A a \in GrammarAttributes :
              (~Truthy(DecodedFeatures) \/ ~RuleFires(a, DecodedFeatures))
              => result.value[a] = None
        /\ result.value.pos \notin KnownPosCodes
           => result.value.pos_full = result.value.pos

\* "STEM" under the unknown POS code "XY": nothing decoded, pos_full "XY"
C26_Witness ==
    /\ Decoded
    /\ DecodedFeatures = <<"S", "T", "E", "M">>
    /\ \A a \in GrammarAttributes : ~RuleFires(a, DecodedFeatures)
    /\ \A a \in GrammarAttributes : result.value[a] = None
    /\ result.args[1].pos = <<"X", "Y">>
    /\ result.value.pos_full = <<"X", "Y">>

\* the ten roman numerals I .. X
TenNumerals ==
    { <<"I">>, <<"I", "I">>, <<"I", "I", "I">>, <<"I", "V">>, <<"V">>, <<"V", "I">>, <<"V", "I", "I">>, <<"V", "I", "I", "I">>, <<"I", "X">>, <<"X">> }

\* C28 as stated: a verb_form that is returned is "Form " followed by one
\* of the ten numerals I .. X; a parenthesised token holding anything else
\* leaves verb_form absent.
C28_VerbFormRange ==
    (Decoded /\ result.value.verb_form # None) =>
        \E x \in TenNumerals : result.value.verb_form = <<"F", "o", "r", "m", " ">> \o x

\* the part of C28 that holds: "(XI)" alone leaves verb_form absent
C28_NumeralElevenIsAbsent ==
    (Decoded /\ DecodedFeatures = <<"(", "X", "I", ")">>) => result.value.verb_form = None

RECURSIVE SplitBar(_, _)
SplitBar(s, piece) ==
    IF s = <<>> THEN <<piece>>
    ELSE IF Head(s) = "|" THEN <<piece>> \o SplitBar(Tail(s), <<>>)
    ELSE SplitBar(Tail(s), Append(piece, Head(s)))

\* f is a code of {2,3} x {M,F} x {S,D,P} followed by voice, tense, mood
\* or verb-form tags
CodeThenTags(f) ==
    /\ Truthy(f)
    /\ LET pieces == SplitBar(f, <<>>)
       IN /\ pieces[1] \in AgreementCodes
          /\ \A k \in 2..Len(pieces) : pieces[k] \in AgreementTags

PersonOf(c) == IF c = "2" THEN <<"2", "n", "d">> ELSE <<"3", "r", "d">>
GenderOf(c) == IF c = "M" THEN <<"m", "a", "s", "c", "u", "l", "i", "n", "e">> ELSE <<"f", "e", "m", "i", "n", "i", "n", "e">>
NumberOf(c) ==
    IF c = "S" THEN <<"s", "i", "n", "g", "u", "l", "a", "r">> ELSE IF c = "D" THEN <<"d", "u", "a", "l">> ELSE <<"p", "l", "u", "r", "a", "l">>

\* C29 as stated: for a features string made of a person-gender-number code
\* followed by voice, tense, mood or verb-form tags, the decoded person,
\* gender and number are those of the code.
C29_AgreementWithCode ==
    (Decoded /\ CodeThenTags(DecodedFeatures)) =>
        /\ result.value.person = PersonOf(DecodedFeatures[1])
        /\ result.value.gender = GenderOf(DecodedFeatures[2])
        /\ result.value.number = NumberOf(DecodedFeatures[3])

\* the part of C29 that holds: the person is that of the code, and a code
\* standing alone decodes to its own gender and number
C29_PersonAndBareCode ==
    (Decoded /\ CodeThenTags(DecodedFeatures)) =>
        /\ result.value.person = PersonOf(DecodedFeatures[1])
        /\ Len(DecodedFeatures) = 3 =>
              /\ result.value.gender = GenderOf(DecodedFeatures[2])
              /\ result.value.number = NumberOf(DecodedFeatures[3])

-----------------------------------------------------------------------------
(* C27: the free-text syntax search against the syntax n-gram index.       *)

\* the queries: 2 or 3 of the codes n, v, p
SyntaxQueryCodes ==
    UNION {[1..n -> {S_n, <<"v">>, <<"p">>}] : n \in {2, 3}}

\* the locations of the verses search_syntax counts for the codes q
SearchedLocations(q) ==
    LET found == SearchSyntaxOn(verses, Join(<<" ">>, q), Len(verses))
    IN {VerseKey(found.results[i].verse) : i \in 1..Len(found.results)}

\* C27 as stated: for every query q of 2 or 3 POS codes, the verses that
\* search_syntax(q) counts are the locations the syntax index holds under
\* the key made by joining q with "|".
C27_SearchAgreesWithIndex ==
    \A q \in SyntaxQueryCodes :
        SearchedLocations(q) = SyntaxLocations(Join(<<"|">>, q))

\* the part of C27 that holds: every verse the search counts is in the index
\* entry (the index also holds windows that span a token without a first
\* segment POS, and codes taken from a token's own pos)
C27_SearchedAreIndexed ==
    \A q \in SyntaxQueryCodes :
        SearchedLocations(q) \subseteq SyntaxLocations(Join(<<"|">>, q))

-----------------------------------------------------------------------------
(* C30: the indexes under the write operations.                            *)

\* what the indexes and verse_lookup are built from
Indexed(verse) ==
    [surah |-> verse.surah, ayah |-> verse.ayah, text |-> verse.text,
     tokens |-> verse.tokens]

\* C30: no write operation adds or removes a verse or changes a verse's
\* location, text, tokens or segments, and in every state the root,
\* morph-pattern and syntax indexes, their lists and verse_lookup are what
\* a rebuild on the current corpus produces.
C30_IndexesNeverStale ==
    /\ [][/\ Len(verses') = Len(verses)
          /\ \A i \in 1..Len(verses) : Indexed(verses'[i]) = Indexed(verses[i])]_vars
    /\ [](/\ CurrentIndexFields = BuiltIndexFields(EmptyIndexFields, verses)
          /\ verse_lookup = BuildVerseLookup(EmptyMap, verses))

\* two writes have changed verse 1:1 (an annotation and a translation are
\* stored) and the root index still holds its root
C30_Witness ==
    /\ store.requests >= 2
    /\ verses # store.corpus_file \/ store.written # {}
    /\ "annotations" \in DOMAIN verses[1]
    /\ "translations" \in DOMAIN verses[1]
    /\ verse_lookup[<<1, 1>>] = verses[1]
    /\ root_index[S_r] = {<<1, 1>>}

=============================================================================
